---- MODULE Spec2Model ----
(***************************************************************************)
(* A model of the bamgoo/web routing and dispatch engine: the registry     *)
(* (drivers, configs, routers, filters, handlers), Setup's site and host   *)
(* tables, host resolution, the reverse URL builder and the per-request    *)
(* pipeline of Context.clear / next / Next.                                *)
(*                                                                         *)
(* Go strings are TLA+ strings; TLC evaluates Len, \o and SubSeq on them,  *)
(* so ToLower, splitPrefix, normalizeHost and the URI template             *)
(* substitution are computed character by character as the code does.      *)
(* Go maps are functions; a `range` over a map visits its keys in an       *)
(* unspecified order, so every loop whose result can depend on that order  *)
(* yields the SET of results over all visiting orders.                     *)
(***************************************************************************)
EXTENDS Naturals, Integers, Sequences, FiniteSets, TLC

VARIABLES
    override,      \* bamgoo.Override(): the process-wide win policy
    opened,        \* Module.opened
    started,       \* Module.started
    drivers,       \* Module.drivers  : name -> driver
    config,        \* Module.config
    configs,       \* Module.configs  : name -> Config
    routers,       \* Module.routers  : name -> Router
    filters,       \* Module.filters  : name -> Filter
    handlers,      \* Module.handlers : name -> Handler
    sites,         \* Module.sites    : name -> Site
    siteHosts,     \* Module.siteHosts: host -> site name
    defaultSite,   \* Module.defaultSite
    cross,         \* Module.cross
    instance,      \* Module.instance and its connection
    mutex,         \* Module.mutex: the goroutine that holds it, "" when free
    procs,         \* the goroutines that register: where each stands in its call
    ctx,           \* the Context of the request in flight
    pc,            \* the request's position: the function running and its step
    stack,         \* the request's call stack: where each caller resumes
    ran,           \* history: the stages the request has run, in order
    calls,         \* history: the number of calls made so far
    regLog,        \* history: the site names in the order RegisterConfig stored them
    handlerLog,    \* history: the handler names in the order RegisterHandler stored them
    setupDone,     \* history: Setup has completed at least once
    last           \* history: the last call and what it returned

vars == <<override, opened, started, drivers, config, configs, routers,
          filters, handlers, sites, siteHosts, defaultSite, cross,
          instance, mutex, procs, ctx, pc, stack, ran, calls, regLog, handlerLog,
          setupDone, last>>

registry == <<drivers, configs, routers, filters, handlers, sites, siteHosts>>

----------------------------------------------------------------------------
(* Strings *)

NIL == "nil"
DEFAULT == "default"

\* x := v, then the statements In(x): the value is computed once
With(v, In(_)) == In(v)

Char(s, i) == SubSeq(s, i, i)

UpperLetters == "ABCDEFGHIJKLMNOPQRSTUVWXYZ"
LowerLetters == "abcdefghijklmnopqrstuvwxyz"

ToLowerChar(c) ==
    IF \E i \in 1..Len(UpperLetters) : Char(UpperLetters, i) = c
    THEN Char(LowerLetters, CHOOSE i \in 1..Len(UpperLetters) : Char(UpperLetters, i) = c)
    ELSE c

RECURSIVE ToLower(_)
ToLower(s) ==
    IF Len(s) = 0 THEN "" ELSE ToLowerChar(Char(s, 1)) \o ToLower(Tail(s))

\* strings.Index for a one-character needle; 0 when absent (Go: -1)
IndexOf(s, c) ==
    IF \E i \in 1..Len(s) : Char(s, i) = c
    THEN CHOOSE i \in 1..Len(s) : Char(s, i) = c /\ \A j \in 1..(i - 1) : Char(s, j) # c
    ELSE 0

LastIndexOf(s, c) ==
    IF \E i \in 1..Len(s) : Char(s, i) = c
    THEN CHOOSE i \in 1..Len(s) : Char(s, i) = c /\ \A j \in (i + 1)..Len(s) : Char(s, j) # c
    ELSE 0

Contains(s, c) == IndexOf(s, c) > 0

\* strings.Contains for any needle
Includes(s, sub) == \E i \in 1..(Len(s) - Len(sub) + 1) : SubSeq(s, i, i + Len(sub) - 1) = sub

HasPrefix(s, p) == Len(s) >= Len(p) /\ SubSeq(s, 1, Len(p)) = p
HasSuffix(s, p) == Len(s) >= Len(p) /\ SubSeq(s, Len(s) - Len(p) + 1, Len(s)) = p

RECURSIVE TrimLeft(_)
TrimLeft(s) == IF Len(s) > 0 /\ Char(s, 1) = " " THEN TrimLeft(Tail(s)) ELSE s

RECURSIVE TrimRight(_)
TrimRight(s) ==
    IF Len(s) > 0 /\ Char(s, Len(s)) = " " THEN TrimRight(SubSeq(s, 1, Len(s) - 1)) ELSE s

TrimSpace(s) == TrimRight(TrimLeft(s))

\* strings.Split(s, "."): the dot-separated parts, at least one
RECURSIVE SplitDots(_)
SplitDots(s) ==
    LET i == IndexOf(s, ".")
    IN IF i = 0 THEN <<s>>
       ELSE <<SubSeq(s, 1, i - 1)>> \o SplitDots(SubSeq(s, i + 1, Len(s)))

\* strings.Join(parts, ".")
RECURSIVE JoinDots(_)
JoinDots(parts) ==
    IF Len(parts) = 0 THEN ""
    ELSE IF Len(parts) = 1 THEN parts[1]
    ELSE parts[1] \o "." \o JoinDots(Tail(parts))

Digits == "0123456789"

\* strconv.Itoa for a natural number
RECURSIVE Itoa(_)
Itoa(n) ==
    IF n < 10 THEN Char(Digits, n + 1)
    ELSE Itoa(n \div 10) \o Char(Digits, (n % 10) + 1)

----------------------------------------------------------------------------
(* Maps *)

EmptyMap == [k \in {} |-> NIL]

Put(m, k, v) == [x \in (DOMAIN m) \cup {k} |-> IF x = k THEN v ELSE m[x]]

Get(m, k, zero) == IF k \in DOMAIN m THEN m[k] ELSE zero

\* the sequence s as a set
Range(s) == {s[i] : i \in 1..Len(s)}

----------------------------------------------------------------------------
(* Records of module.go and component.go *)

\* Config{}: the zero value of the fields modelled
\* (MaxAge is a duration, in seconds)
ZeroConfig ==
    [Driver |-> "", Port |-> 0, Host |-> "", Domain |-> "", Domains |-> <<>>,
     MaxAge |-> 0, HttpOnly |-> FALSE, Static |-> ""]

\* var module = &Module{defaultConfig: Config{Driver: DEFAULT, Port: 8080, ...}}
defaultConfig == [ZeroConfig EXCEPT !.Driver = DEFAULT, !.Port = 8080]

\* Router{}: the zero value.  Routing maps a method key to the override's
\* Router; Uris is a list; ctxFunc values are callback names, NIL for nil.
ZeroRouter ==
    [Method |-> "", Uri |-> "", Uris |-> <<>>, Name |-> "", Nullable |-> FALSE,
     Args |-> EmptyMap, Routing |-> EmptyMap, Actions |-> <<>>, Action |-> NIL,
     Sign |-> FALSE, Auth |-> FALSE,
     Found |-> NIL, Error |-> NIL, Failed |-> NIL, Denied |-> NIL]

ZeroFilter == [Serve |-> NIL, Request |-> NIL, Execute |-> NIL, Response |-> NIL]

ZeroHandler == [Found |-> NIL, Error |-> NIL, Failed |-> NIL, Denied |-> NIL]

mergeConfig(baseCfg, newCfg) ==
    [Driver  |-> IF newCfg.Driver # "" THEN newCfg.Driver ELSE baseCfg.Driver,
     Port    |-> IF newCfg.Port # 0 THEN newCfg.Port ELSE baseCfg.Port,
     Host    |-> IF newCfg.Host # "" THEN newCfg.Host ELSE baseCfg.Host,
     Domain  |-> IF newCfg.Domain # "" THEN newCfg.Domain ELSE baseCfg.Domain,
     Domains |-> IF Len(newCfg.Domains) > 0 THEN newCfg.Domains ELSE baseCfg.Domains,
     MaxAge   |-> IF newCfg.MaxAge # 0 THEN newCfg.MaxAge ELSE baseCfg.MaxAge,
     HttpOnly |-> IF newCfg.HttpOnly THEN TRUE ELSE baseCfg.HttpOnly,
     Static   |-> IF newCfg.Static # "" THEN newCfg.Static ELSE baseCfg.Static]

\* time.Hour * 24 * 30, in seconds
MonthSeconds == 3600 * 24 * 30

applyDefaults(cfg) ==
    [cfg EXCEPT !.Port = IF cfg.Port <= 0 \/ cfg.Port > 65535 THEN 8080 ELSE cfg.Port,
                !.Host = IF cfg.Host = "" THEN "0.0.0.0" ELSE cfg.Host,
                !.Static = IF cfg.Static = "" THEN "asset/statics" ELSE cfg.Static,
                !.MaxAge = IF cfg.MaxAge = 0 THEN MonthSeconds ELSE cfg.MaxAge]

\* func (m *Module) applySiteDefaults(name string, cfg *Config), with mcfg the
\* module's config; path.Join of a clean root and a name puts "/" between them
applySiteDefaults(name, cfg, mcfg) ==
    With(IF cfg.Static = "" THEN mcfg.Static ELSE cfg.Static, LAMBDA static :
        [cfg EXCEPT !.Static =
            IF mcfg.Static # "" /\ static = mcfg.Static /\ name # DEFAULT
            THEN mcfg.Static \o "/" \o name ELSE static])

\* func splitPrefix(name string) (string, string)
splitPrefix(name0) ==
    With(ToLower(name0), LAMBDA name :
    With(IndexOf(name, "."), LAMBDA i :
        IF name = "" THEN <<"", "">>
        ELSE IF i > 0 THEN <<SubSeq(name, 1, i - 1), SubSeq(name, i + 1, Len(name))>>
        ELSE <<DEFAULT, name>>))

----------------------------------------------------------------------------
(* Registration: module.go 150-187, component.go 74-122 *)

\* a call on the module: it is counted, and no request's context is touched
ModuleCall == calls' = calls + 1 /\ UNCHANGED <<ctx, pc, stack, ran, mutex, procs>>

\* func (m *Module) RegisterDriver(name string, driver Driver)
\* (a nil driver panics: the call is made with a driver)
RegisterDriverStore(name0, driver) ==
    LET name == IF name0 = "" THEN DEFAULT ELSE name0
    IN IF override THEN Put(drivers, name, driver)
       ELSE IF name \notin DOMAIN drivers THEN Put(drivers, name, driver)
       ELSE drivers

RegisterDriver(name, driver) ==
    /\ drivers' = RegisterDriverStore(name, driver)
    /\ ModuleCall /\ UNCHANGED <<regLog, handlerLog>>
    /\ last' = [op |-> "RegisterDriver", name |-> name, value |-> driver, sealed |-> opened]
    /\ UNCHANGED <<override, opened, started, config, configs, routers, filters,
                   handlers, sites, siteHosts, defaultSite, cross, instance, setupDone>>

\* func (m *Module) RegisterConfig(name string, config Config)
RegisterConfigStore(name0, cfg) ==
    LET name == ToLower(IF name0 = "" THEN DEFAULT ELSE name0)
    IN IF opened THEN configs
       ELSE IF override THEN Put(configs, name, cfg)
       ELSE IF name \notin DOMAIN configs THEN Put(configs, name, cfg)
       ELSE configs

RegisterConfig(name, cfg) ==
    /\ configs' = RegisterConfigStore(name, cfg)
    /\ ModuleCall
    /\ regLog' = LET key == ToLower(IF name = "" THEN DEFAULT ELSE name)
                 IN IF configs' # configs /\ key \notin Range(regLog)
                    THEN Append(regLog, key) ELSE regLog
    /\ UNCHANGED handlerLog
    /\ last' = [op |-> "RegisterConfig", name |-> name, value |-> cfg, sealed |-> opened]
    /\ UNCHANGED <<override, opened, started, drivers, config, routers, filters,
                   handlers, sites, siteHosts, defaultSite, cross, instance, setupDone>>

\* func (m *Module) RegisterRouter(name string, config Router)
RegisterRouterStore(name0, cfg) ==
    LET name == ToLower(name0)
    IN IF opened THEN routers
       ELSE IF override THEN Put(routers, name, cfg)
       ELSE IF name \notin DOMAIN routers THEN Put(routers, name, cfg)
       ELSE routers

RegisterRouter(name, cfg) ==
    /\ routers' = RegisterRouterStore(name, cfg)
    /\ ModuleCall /\ UNCHANGED <<regLog, handlerLog>>
    /\ last' = [op |-> "RegisterRouter", name |-> name, value |-> cfg, sealed |-> opened]
    /\ UNCHANGED <<override, opened, started, drivers, config, configs, filters,
                   handlers, sites, siteHosts, defaultSite, cross, instance, setupDone>>

\* func (m *Module) RegisterFilter(name string, config Filter)
RegisterFilterStore(name0, cfg) ==
    LET name == ToLower(name0)
    IN IF opened THEN filters
       ELSE IF override THEN Put(filters, name, cfg)
       ELSE IF name \notin DOMAIN filters THEN Put(filters, name, cfg)
       ELSE filters

RegisterFilter(name, cfg) ==
    /\ filters' = RegisterFilterStore(name, cfg)
    /\ ModuleCall /\ UNCHANGED <<regLog, handlerLog>>
    /\ last' = [op |-> "RegisterFilter", name |-> name, value |-> cfg, sealed |-> opened]
    /\ UNCHANGED <<override, opened, started, drivers, config, configs, routers,
                   handlers, sites, siteHosts, defaultSite, cross, instance, setupDone>>

\* func (m *Module) RegisterHandler(name string, config Handler)
RegisterHandlerStore(name0, cfg) ==
    LET name == ToLower(name0)
    IN IF opened THEN handlers
       ELSE IF override THEN Put(handlers, name, cfg)
       ELSE IF name \notin DOMAIN handlers THEN Put(handlers, name, cfg)
       ELSE handlers

RegisterHandler(name, cfg) ==
    /\ handlers' = RegisterHandlerStore(name, cfg)
    /\ ModuleCall /\ UNCHANGED regLog
    /\ handlerLog' = IF ToLower(name) \in DOMAIN handlers' /\ ToLower(name) \notin Range(handlerLog)
                     THEN Append(handlerLog, ToLower(name)) ELSE handlerLog
    /\ last' = [op |-> "RegisterHandler", name |-> name, value |-> cfg, sealed |-> opened]
    /\ UNCHANGED <<override, opened, started, drivers, config, configs, routers,
                   filters, sites, siteHosts, defaultSite, cross, instance, setupDone>>

----------------------------------------------------------------------------
(* Route table builder: component.go 124-261 *)

\* the key-wise union of two Vars maps, the second winning on shared keys
MergeVars(a, b) ==
    [k \in (DOMAIN a) \cup (DOMAIN b) |-> IF k \in DOMAIN b THEN b[k] ELSE a[k]]

\* a merge that puts the Uri field first
mergedUrisUriFirst(cfg) ==
    IF Len(cfg.Uris) = 0 THEN <<cfg.Uri>>
    ELSE IF cfg.Uri # "" THEN <<cfg.Uri>> \o cfg.Uris
    ELSE cfg.Uris

\* expandRouter, lines 130-134: the Uri and Uris fields merged
mergedUris(cfg) ==
    IF Len(cfg.Uris) = 0 THEN <<cfg.Uri>>
    ELSE IF cfg.Uri # "" THEN Append(cfg.Uris, cfg.Uri)
    ELSE cfg.Uris

\* expandRouter, lines 139-222: the record of one Routing entry
methodRouter(cfg, method, methodConfig) ==
    [cfg EXCEPT
        !.Method   = method,
        !.Nullable = methodConfig.Nullable,
        !.Routing  = EmptyMap,
        !.Args     = MergeVars(cfg.Args, methodConfig.Args),
        !.Name     = IF methodConfig.Name # "" THEN methodConfig.Name ELSE cfg.Name,
        !.Action   = methodConfig.Action,
        !.Actions  = methodConfig.Actions,
        !.Found    = IF methodConfig.Found # NIL THEN methodConfig.Found ELSE cfg.Found,
        !.Error    = IF methodConfig.Error # NIL THEN methodConfig.Error ELSE cfg.Error,
        !.Failed   = IF methodConfig.Failed # NIL THEN methodConfig.Failed ELSE cfg.Failed,
        !.Denied   = IF methodConfig.Denied # NIL THEN methodConfig.Denied ELSE cfg.Denied]

\* the generic record's name, lines 226-229
genericName(routerName) == routerName \o ".*"

\* func expandRouter(routerName string, config Router) map[string]Router
expandRouter(routerName, config0) ==
    With([config0 EXCEPT !.Uris = mergedUris(config0)], LAMBDA cfg :
    With({routerName \o "." \o m : m \in DOMAIN cfg.Routing}, LAMBDA byMethod :
    With(IF cfg.Action # NIL THEN {genericName(routerName)} ELSE {}, LAMBDA generic :
        [n \in byMethod \cup generic |->
            IF n \in generic THEN [cfg EXCEPT !.Routing = EmptyMap]
            ELSE With(CHOOSE m \in DOMAIN cfg.Routing : routerName \o "." \o m = n,
                      LAMBDA method : methodRouter(cfg, method, cfg.Routing[method]))])))

\* storeRouters, lines 236-241: one key stored under the win policy
storeRouter(target, key0, router) ==
    LET key == ToLower(key0)
    IN IF override THEN Put(target, key, router)
       ELSE IF key \notin DOMAIN target THEN Put(target, key, router)
       ELSE target

\* func storeRouters(target, routers): the results over the orders in which
\* the keys `left` of routers may still be visited
RECURSIVE storeRoutersFrom(_, _, _)
storeRoutersFrom(target, rs, left) ==
    IF left = {} THEN {target}
    ELSE UNION {storeRoutersFrom(storeRouter(target, k, rs[k]), rs, left \ {k}) : k \in left}

storeRouters(target, rs) == storeRoutersFrom(target, rs, DOMAIN rs)

\* func applyRouter(site, routerName, config)
applyRouter(siteRouters, routerName, cfg) ==
    storeRouters(siteRouters, expandRouter(routerName, cfg))

\* func storeFilter(target, name, config)
storeFilter(target, name0, cfg) ==
    LET name == ToLower(name0)
    IN IF override THEN Put(target, name, cfg)
       ELSE IF name \notin DOMAIN target THEN Put(target, name, cfg)
       ELSE target

\* func storeHandler(target, name, config)
storeHandler(target, name0, cfg) ==
    LET name == ToLower(name0)
    IN IF override THEN Put(target, name, cfg)
       ELSE IF name \notin DOMAIN target THEN Put(target, name, cfg)
       ELSE target

----------------------------------------------------------------------------
(* Hosts: module.go 629-684, 841-896 *)

CountOf(s, c) == Cardinality({i \in 1..Len(s) : Char(s, i) = c})

\* net.SplitHostPort(host): <<ok, host>>.  "[v6]:port" and "host:port" are
\* accepted; a missing port, more colons without brackets, or a stray
\* bracket is an error.
SplitHostPort(hostport) ==
    With(LastIndexOf(hostport, ":"), LAMBDA i :
    With(IndexOf(hostport, "]"), LAMBDA j :
        IF i = 0 THEN <<FALSE, "">>
        ELSE IF Char(hostport, 1) = "["
        THEN IF j = 0 \/ j + 1 # i THEN <<FALSE, "">>
             ELSE <<TRUE, SubSeq(hostport, 2, j - 1)>>
        ELSE IF CountOf(hostport, ":") > 1 \/ Contains(hostport, "[") \/ Contains(hostport, "]")
        THEN <<FALSE, "">>
        ELSE <<TRUE, SubSeq(hostport, 1, i - 1)>>))

\* func normalizeHost(host string) string
normalizeHost(host0) ==
    With(TrimSpace(ToLower(host0)), LAMBDA h1 :
    With(IF HasPrefix(h1, "http://") \/ HasPrefix(h1, "https://")
         THEN SubSeq(h1, IndexOf(h1, ":") + 3, Len(h1)) ELSE h1, LAMBDA h2 :
    With(IndexOf(h2, "/"), LAMBDA sl :
    With(IF sl > 0 THEN SubSeq(h2, 1, sl - 1) ELSE h2, LAMBDA h3 :
    With(SplitHostPort(h3), LAMBDA hp :
        IF h1 = "" THEN ""
        ELSE TrimSpace(IF Contains(h3, ":") /\ hp[1] THEN hp[2] ELSE h3))))))

\* func parseStringList(val Any) []string, for a string and for a []string
parseStringList1(v) == IF v = "" THEN <<>> ELSE <<v>>
parseStringListN(vs) == SelectSeq(vs, LAMBDA x : x # "")

\* resolveSiteHosts, lines 660-672: normalized, empty ones and repeats dropped
RECURSIVE uniqHosts(_, _)
uniqHosts(hosts, acc) ==
    IF Len(hosts) = 0 THEN acc
    ELSE With(normalizeHost(Head(hosts)), LAMBDA h :
            uniqHosts(Tail(hosts),
                      IF h = "" \/ h \in Range(acc) THEN acc ELSE Append(acc, h)))

\* func (m *Module) resolveSiteHosts(name string, cfg *Config) []string
\* with mcfg the module's config; yields the host list and the config as left
resolveSiteHosts(name, cfg, mcfg) ==
    With(parseStringList1(cfg.Domain) \o parseStringListN(cfg.Domains), LAMBDA listed :
    With(IF Len(listed) = 0 /\ mcfg.Domain # ""
         THEN IF name = DEFAULT THEN <<mcfg.Domain>>
              ELSE <<name \o "." \o mcfg.Domain>>
         ELSE listed, LAMBDA hosts :
    With(uniqHosts(hosts, <<>>), LAMBDA uniq :
        [Hosts  |-> uniq,
         Config |-> IF Len(uniq) > 0
                    THEN [cfg EXCEPT !.Domain = uniq[1], !.Domains = Tail(uniq)]
                    ELSE cfg])))

\* a resolver that tries the shortest suffix first
wildcardPatternsShortestFirst(host) ==
    With(SplitDots(host), LAMBDA parts :
        [i \in 1..(Len(parts) - 1) |->
            "*." \o JoinDots(SubSeq(parts, Len(parts) - i + 1, Len(parts)))])

\* resolveSiteByHost, lines 637-643: the wildcard patterns tried, in order
wildcardPatterns(host) ==
    With(SplitDots(host), LAMBDA parts :
        [i \in 1..(Len(parts) - 1) |-> "*." \o JoinDots(SubSeq(parts, i + 1, Len(parts)))])

\* the first pattern of the list that the host table holds, "" when none
RECURSIVE firstHit(_, _)
firstHit(patterns, table) ==
    IF Len(patterns) = 0 THEN ""
    ELSE IF Head(patterns) \in DOMAIN table THEN table[Head(patterns)]
    ELSE firstHit(Tail(patterns), table)

\* func (m *Module) resolveSiteByHost(host string) string
resolveSiteByHost(host0) ==
    With(normalizeHost(host0), LAMBDA host :
        IF host = "" THEN ""
        ELSE IF host \in DOMAIN siteHosts THEN siteHosts[host]
        ELSE firstHit(wildcardPatterns(host), siteHosts))

----------------------------------------------------------------------------
(* Setup: module.go 291-514 *)

\* the orders in which a `range` may visit the keys S of a map
Orders(S) ==
    {o \in [1..Cardinality(S) -> S] : \A i, j \in 1..Cardinality(S) : o[i] = o[j] => i = j}

NonNil(fs) == SelectSeq(fs, LAMBDA f : f # NIL)

sitePrefixes(table) == {splitPrefix(k)[1] : k \in DOMAIN table} \ {"*"}

\* Setup, lines 303-324: the names of the sites to build
siteNames ==
    {DEFAULT} \cup (DOMAIN configs) \cup sitePrefixes(routers)
              \cup sitePrefixes(filters) \cup sitePrefixes(handlers)

\* Setup, lines 300-301: the module's config as Setup leaves it
setupConfig == applyDefaults(mergeConfig(defaultConfig, config))

\* Setup, lines 331-348: the site as constructed, its tables still empty.
newSite(name, mcfg) ==
    With(mergeConfig(mergeConfig(defaultConfig, mcfg), Get(configs, name, ZeroConfig)),
         LAMBDA layered :
    With(resolveSiteHosts(name, applySiteDefaults(name, applyDefaults(layered), mcfg), mcfg),
         LAMBDA rh :
        [Name |-> name, Config |-> rh.Config, Cross |-> cross, Hosts |-> rh.Hosts,
         routers |-> EmptyMap, filters |-> EmptyMap, handlers |-> EmptyMap,
         routerInfos |-> EmptyMap,
         serveFilters |-> <<>>, requestFilters |-> <<>>,
         executeFilters |-> <<>>, responseFilters |-> <<>>,
         foundHandlers |-> <<>>, errorHandlers |-> <<>>,
         failedHandlers |-> <<>>, deniedHandlers |-> <<>>]))

\* the tables tabs (site -> table) with every site s set to some member of each(s)
RECURSIVE EverySiteFrom(_, _, _)
EverySiteFrom(tabs, each(_), left) ==
    IF left = {} THEN {tabs}
    ELSE With(CHOOSE s \in left : TRUE, LAMBDA s :
            UNION {EverySiteFrom([tabs EXCEPT ![s] = v], each, left \ {s}) : v \in each(s)})

EverySite(tabs, each(_)) == EverySiteFrom(tabs, each, DOMAIN tabs)

\* Setup, lines 359-368: one registered router applied
applyRouterKey(tabs, key) ==
    With(splitPrefix(key), LAMBDA sp :
        IF sp[1] = "*"
        THEN EverySite(tabs, LAMBDA s : applyRouter(tabs[s], sp[2], routers[key]))
        ELSE IF sp[1] \in DOMAIN tabs
        THEN {[tabs EXCEPT ![sp[1]] = r] : r \in applyRouter(tabs[sp[1]], sp[2], routers[key])}
        ELSE {tabs})

\* Setup, lines 358-369: for key, router := range m.routers
RECURSIVE applyRoutersFrom(_, _)
applyRoutersFrom(tabs, left) ==
    IF left = {} THEN {tabs}
    ELSE UNION {UNION {applyRoutersFrom(t, left \ {k}) : t \in applyRouterKey(tabs, k)}
                : k \in left}

\* Setup, lines 371-380: one registered filter applied
applyFilterKey(tabs, key) ==
    With(splitPrefix(key), LAMBDA sp :
        IF sp[1] = "*"
        THEN [s \in DOMAIN tabs |-> storeFilter(tabs[s], sp[2], filters[key])]
        ELSE IF sp[1] \in DOMAIN tabs
        THEN [tabs EXCEPT ![sp[1]] = storeFilter(tabs[sp[1]], sp[2], filters[key])]
        ELSE tabs)

\* Setup, lines 370-381: for key, filter := range m.filters
RECURSIVE applyFiltersFrom(_, _)
applyFiltersFrom(tabs, left) ==
    IF left = {} THEN {tabs}
    ELSE UNION {applyFiltersFrom(applyFilterKey(tabs, k), left \ {k}) : k \in left}

\* Setup, lines 383-392: one registered handler applied
applyHandlerKey(tabs, key) ==
    With(splitPrefix(key), LAMBDA sp :
        IF sp[1] = "*"
        THEN [s \in DOMAIN tabs |-> storeHandler(tabs[s], sp[2], handlers[key])]
        ELSE IF sp[1] \in DOMAIN tabs
        THEN [tabs EXCEPT ![sp[1]] = storeHandler(tabs[sp[1]], sp[2], handlers[key])]
        ELSE tabs)

\* Setup, lines 382-393: for key, handler := range m.handlers
RECURSIVE applyHandlersFrom(_, _)
applyHandlersFrom(tabs, left) ==
    IF left = {} THEN {tabs}
    ELSE UNION {applyHandlersFrom(applyHandlerKey(tabs, k), left \ {k}) : k \in left}

\* Setup, lines 396-406: one site's hosts entered into the host table
RECURSIVE enterHosts(_, _, _)
enterHosts(table, hosts, siteName) ==
    IF Len(hosts) = 0 THEN table
    ELSE With(normalizeHost(Head(hosts)), LAMBDA host :
            enterHosts(IF host = "" THEN table
                       ELSE IF override THEN Put(table, host, siteName)
                       ELSE IF host \notin DOMAIN table THEN Put(table, host, siteName)
                       ELSE table,
                       Tail(hosts), siteName))

\* Setup, lines 395-408: the host table after the sites are visited in `order`
RECURSIVE hostTableIn(_, _, _)
hostTableIn(table, built, order) ==
    IF Len(order) = 0 THEN table
    ELSE hostTableIn(enterHosts(table, built[Head(order)].Hosts, Head(order)),
                     built, Tail(order))

\* the orders in which Setup's last loop may visit the sites
siteVisitOrders(names) == Orders(names)


\* a builder that names every URI's record after the router alone
infoKeyBare(key, i) == key

\* buildSite, lines 464-467: the record name of the URI at (one-based) place i
infoKey(key, i) == IF i > 1 THEN key \o "." \o Itoa(i - 1) ELSE key

\* buildSite, lines 463-474: the records of one router entered
RECURSIVE putInfos(_, _, _, _)
putInfos(infos, key, router, i) ==
    IF i > Len(router.Uris) THEN infos
    ELSE putInfos(Put(infos, infoKey(key, i),
                      [Method |-> router.Method, Uri |-> router.Uris[i],
                       Router |-> key, Args |-> router.Args]),
                  key, router, i + 1)

\* buildSite, lines 461-475: for key, router := range site.routers
RECURSIVE routerInfosFrom(_, _, _)
routerInfosFrom(infos, rs, left) ==
    IF left = {} THEN {infos}
    ELSE UNION {routerInfosFrom(putInfos(infos, k, rs[k], 1), rs, left \ {k}) : k \in left}

\* func (m *Module) buildSite(site *Site): the sites it may leave
buildSite(site) ==
    {[site EXCEPT
        !.routerInfos     = infos,
        !.serveFilters    = NonNil([i \in 1..Len(fo) |-> site.filters[fo[i]].Serve]),
        !.requestFilters  = NonNil([i \in 1..Len(fo) |-> site.filters[fo[i]].Request]),
        !.executeFilters  = NonNil([i \in 1..Len(fo) |-> site.filters[fo[i]].Execute]),
        !.responseFilters = NonNil([i \in 1..Len(fo) |-> site.filters[fo[i]].Response]),
        !.foundHandlers   = NonNil([i \in 1..Len(ho) |-> site.handlers[ho[i]].Found]),
        !.errorHandlers   = NonNil([i \in 1..Len(ho) |-> site.handlers[ho[i]].Error]),
        !.failedHandlers  = NonNil([i \in 1..Len(ho) |-> site.handlers[ho[i]].Failed]),
        !.deniedHandlers  = NonNil([i \in 1..Len(ho) |-> site.handlers[ho[i]].Denied])]
     : infos \in routerInfosFrom(EmptyMap, site.routers, DOMAIN site.routers),
       fo \in Orders(DOMAIN site.filters),
       ho \in Orders(DOMAIN site.handlers)}

\* Setup, lines 358-393: the sites with their tables filled in
filledSites(fresh, rt, ft, ht) ==
    [n \in DOMAIN fresh |->
        [fresh[n] EXCEPT !.routers = rt[n], !.filters = ft[n], !.handlers = ht[n]]]

\* Setup, line 407: every site built
builtSites(filled) == EverySite(filled, LAMBDA n : buildSite(filled[n]))

\* Setup, lines 326-408, for the site names, their empty tables and the
\* sites as constructed
setupOutcomesOf(names, empty, fresh) ==
    UNION {UNION {UNION {
        {[sites |-> built, siteHosts |-> hostTableIn(EmptyMap, fresh, order)]
           : built \in builtSites(filledSites(fresh, rt, ft, ht)),
             order \in siteVisitOrders(names)}
        : ht \in applyHandlersFrom(empty, DOMAIN handlers)}
        : ft \in applyFiltersFrom(empty, DOMAIN filters)}
        : rt \in applyRoutersFrom(empty, DOMAIN routers)}

\* the site and host tables Setup may build from the registry
setupOutcomes ==
    With(setupConfig, LAMBDA mcfg :
        setupOutcomesOf(siteNames, [n \in siteNames |-> EmptyMap],
                        [n \in siteNames |-> newSite(n, mcfg)]))

\* func (m *Module) Setup()
Setup ==
    /\ \/ /\ opened
          /\ UNCHANGED <<config, sites, siteHosts, defaultSite, setupDone>>
       \/ /\ ~opened
          /\ config' = setupConfig
          /\ \E out \in setupOutcomes :
                /\ sites' = out.sites
                /\ siteHosts' = out.siteHosts
          /\ defaultSite' = DEFAULT
          /\ setupDone' = TRUE
    /\ ModuleCall /\ UNCHANGED <<regLog, handlerLog>>
    /\ last' = [op |-> "Setup", name |-> "", sealed |-> opened]
    /\ UNCHANGED <<override, opened, started, drivers, configs, routers, filters,
                   handlers, cross, instance>>

----------------------------------------------------------------------------
(* Lifecycle: module.go 516-598 *)

NoInstance == [present |-> FALSE, connect |-> FALSE, started |-> FALSE, routes |-> {}]

\* func (m *Module) Open(); an unknown driver panics, which ends the process
Open ==
    /\ opened \/ config.Driver \in DOMAIN drivers
    /\ IF opened
       THEN UNCHANGED <<opened, instance>>
       ELSE /\ instance' = [present |-> TRUE, connect |-> TRUE, started |-> FALSE,
                            routes |-> {[name  |-> s \o "." \o r,
                                         uri   |-> sites[s].routerInfos[r].Uri,
                                         hosts |-> sites[s].Hosts]
                                        : <<s, r>> \in {sr \in (DOMAIN sites) \X
                                              UNION {DOMAIN sites[t].routerInfos : t \in DOMAIN sites}
                                              : sr[2] \in DOMAIN sites[sr[1]].routerInfos}}]
            /\ opened' = TRUE
    /\ ModuleCall /\ UNCHANGED <<regLog, handlerLog>>
    /\ last' = [op |-> "Open", name |-> "", sealed |-> opened]
    /\ UNCHANGED <<override, started, drivers, config, configs, routers, filters,
                   handlers, sites, siteHosts, defaultSite, cross, setupDone>>

\* func (m *Module) Start()
Start ==
    /\ IF started
       THEN UNCHANGED <<started, instance>>
       ELSE /\ instance' = IF instance.present /\ instance.connect
                           THEN [instance EXCEPT !.started = TRUE] ELSE instance
            /\ started' = TRUE
    /\ ModuleCall /\ UNCHANGED <<regLog, handlerLog>>
    /\ last' = [op |-> "Start", name |-> "", sealed |-> opened]
    /\ UNCHANGED <<override, opened, drivers, config, configs, routers, filters,
                   handlers, sites, siteHosts, defaultSite, cross, setupDone>>

\* func (m *Module) Stop()
Stop ==
    /\ started' = FALSE
    /\ ModuleCall /\ UNCHANGED <<regLog, handlerLog>>
    /\ last' = [op |-> "Stop", name |-> "", sealed |-> opened]
    /\ UNCHANGED <<override, opened, drivers, config, configs, routers, filters,
                   handlers, sites, siteHosts, defaultSite, cross, instance, setupDone>>

\* func (m *Module) Close().  connect.Close is defaultConnect.Close,
\* component.go 598-602: http.Server.Shutdown under a timeout of five
\* seconds, its error dropped; it returns when the requests in flight have
\* finished or when the time is up, so a request may be in flight or not
\* when Close returns
Close ==
    /\ IF ~opened
       THEN UNCHANGED <<opened, instance>>
       ELSE /\ instance' = IF instance.present /\ instance.connect
                           THEN [instance EXCEPT !.connect = FALSE] ELSE instance
            /\ opened' = FALSE
    /\ ModuleCall /\ UNCHANGED <<regLog, handlerLog>>
    /\ last' = [op |-> "Close", name |-> "", sealed |-> opened]
    /\ UNCHANGED <<override, started, drivers, config, configs, routers, filters,
                   handlers, sites, siteHosts, defaultSite, cross, setupDone>>

----------------------------------------------------------------------------
(* Config: module.go 196-289, 686-759 *)

\* var module = &Module{cross: Cross{Allow: true}}
defaultCross ==
    [Allow |-> TRUE, Method |-> "", Methods |-> <<>>, Origin |-> "", Origins |-> <<>>,
     Header |-> "", Headers |-> <<>>]

\* func parseConfig(conf Map) Config, for the options modelled; conf holds
\* the option values as written
parseConfig(conf) ==
    [Driver  |-> IF conf.Driver # "" THEN ToLower(conf.Driver) ELSE "",
     Port    |-> conf.Port,
     Host    |-> conf.Host,
     Domain  |-> conf.Domain,
     Domains |-> parseStringListN(conf.Domains),
     MaxAge   |-> IF conf.MaxAge > 0 THEN conf.MaxAge ELSE 0,
     HttpOnly |-> conf.HttpOnly,
     Static   |-> conf.Static]

\* func (m *Module) configureRoot(conf Map)
configureRoot(mcfg, conf) ==
    mergeConfig(mergeConfig(defaultConfig, mcfg), parseConfig(conf))

\* func (m *Module) configureSite(name string, conf Map)
configureSite(cfgs, mcfg, name0, conf) ==
    LET name == ToLower(name0)
    IN Put(cfgs, name,
           mergeConfig(mergeConfig(mergeConfig(defaultConfig, mcfg),
                                   Get(cfgs, name, ZeroConfig)),
                       parseConfig(conf)))

\* Config, lines 212-218 and 234-239: for siteName, siteVal := range siteMap
RECURSIVE configureSitesFrom(_, _, _, _)
configureSitesFrom(cfgs, mcfg, siteMap, left) ==
    IF left = {} THEN {cfgs}
    ELSE UNION {configureSitesFrom(configureSite(cfgs, mcfg, k, siteMap[k]), mcfg,
                                   siteMap, left \ {k}) : k \in left}

\* func (m *Module) configureCross(conf Map); conf holds the keys given
configureCross(c, conf) ==
    [Allow   |-> IF "allow" \in DOMAIN conf THEN conf["allow"] ELSE c.Allow,
     Method  |-> IF "method" \in DOMAIN conf THEN conf["method"] ELSE c.Method,
     Methods |-> IF "methods" \in DOMAIN conf /\ Len(parseStringListN(conf["methods"])) > 0
                 THEN parseStringListN(conf["methods"]) ELSE c.Methods,
     Origin  |-> IF "origin" \in DOMAIN conf THEN conf["origin"] ELSE c.Origin,
     Origins |-> IF "origins" \in DOMAIN conf /\ Len(parseStringListN(conf["origins"])) > 0
                 THEN parseStringListN(conf["origins"]) ELSE c.Origins,
     Header  |-> IF "header" \in DOMAIN conf THEN conf["header"] ELSE c.Header,
     Headers |-> IF "headers" \in DOMAIN conf /\ Len(parseStringListN(conf["headers"])) > 0
                 THEN parseStringListN(conf["headers"]) ELSE c.Headers]

\* func (m *Module) Config(global Map), for a global map
\*   {web: {<options g.web>, site: g.webSites}, site: g.sites, cross: g.cross}
\* whose parts are present as g.hasWeb and g.hasCross say, every site value a map
Config(g) ==
    /\ IF opened
       THEN UNCHANGED <<config, configs, cross>>
       ELSE LET rooted == IF g.hasWeb THEN configureRoot(config, g.web) ELSE config
            IN /\ config' = rooted
               /\ \E c1 \in configureSitesFrom(configs, config, g.webSites,
                                               IF g.hasWeb THEN DOMAIN g.webSites ELSE {}) :
                    configs' \in configureSitesFrom(c1, rooted, g.sites, DOMAIN g.sites)
               /\ cross' = IF g.hasCross THEN configureCross(cross, g.cross) ELSE cross
    /\ ModuleCall /\ UNCHANGED <<regLog, handlerLog>>
    /\ last' = [op |-> "Config", name |-> "", sealed |-> opened]
    /\ UNCHANGED <<override, opened, started, drivers, routers, filters, handlers,
                   sites, siteHosts, defaultSite, instance, setupDone>>

----------------------------------------------------------------------------
(* Dispatch: module.go 601-627, component.go 604-688 and 702-769 *)

RECURSIVE ToUpper(_)
ToUpper(s) ==
    IF Len(s) = 0 THEN ""
    ELSE With(Char(s, 1), LAMBDA c :
            (IF \E i \in 1..Len(LowerLetters) : Char(LowerLetters, i) = c
             THEN Char(UpperLetters, CHOOSE i \in 1..Len(LowerLetters) : Char(LowerLetters, i) = c)
             ELSE c) \o ToUpper(Tail(s)))

Idle == [op |-> "idle", fn |-> ""]
AtNext == [op |-> "Next", fn |-> ""]
AtReturn == [op |-> "return", fn |-> ""]
Done == [op |-> "done", fn |-> ""]
Calling(fn) == [op |-> "call", fn |-> fn]

NoContext == [site |-> ""]

\* http.Request, as far as the engine reads it: the Host and Method, the
\* CORS request headers, and what the collaborators answer for it: the static
\* file found for its path ("" when none), Signed(), Authed(), whether
\* Mapping fails its arguments, and the files of its multipart form
Request(host, method, origin) ==
    [Host |-> host, Method |-> method, Origin |-> origin, RequestMethod |-> "",
     RequestHeaders |-> "", Static |-> "", Signed |-> FALSE, Authed |-> FALSE,
     ArgsFail |-> FALSE, Files |-> <<>>]

\* defaultConnect.Register and ServeHTTP: the names under which the connector
\* may hand over a request for `host`: "" when no route matches, else the
\* name of a route registered without hosts or under that host
arriving(host) ==
    {""} \cup {r.name : r \in {x \in instance.routes :
                    x.hosts = <<>> \/ normalizeHost(host) \in Range(x.hosts)}}

\* Serve, lines 602-609: the site the route name selects, "" when none
siteByName(name) ==
    With(splitPrefix(name)[1], LAMBDA siteName :
        IF siteName # "" /\ siteName # DEFAULT /\ siteName \in DOMAIN sites
        THEN siteName ELSE "")

\* a dispatcher without the fallback to the default site
hostFallbackNone(byHost) == byHost

\* Serve, lines 610-615: the fallback when no host entry matches
hostFallback(byHost) == IF byHost = "" THEN defaultSite ELSE byHost

\* a dispatcher that selects the site by the request host alone
selectSiteByHost(name, host) ==
    hostFallback(resolveSiteByHost(host))

\* Serve, lines 602-615: the site selected
selectSite(name, host) ==
    With(siteByName(name), LAMBDA byName :
        IF byName # "" THEN byName ELSE hostFallback(resolveSiteByHost(host)))

\* Serve, lines 621-625: the router name handed to the site
serveRouterName(name) ==
    With(splitPrefix(name)[2], LAMBDA routerName :
        IF name = "" THEN "" ELSE IF routerName = "" THEN name ELSE routerName)

\* Site.Serve, lines 746-753: ctx.Host
requestHost(host) ==
    IF Contains(host, ":")
    THEN With(SplitHostPort(host), LAMBDA hp : IF hp[1] THEN hp[2] ELSE "")
    ELSE host

\* a clear that empties the queue and leaves the cursor where it is
queuedKeepsIndex(c, owner, stages) ==
    [c EXCEPT !.nexts = stages, !.queue = owner, !.qid = @ + 1]

\* Context.clear and Context.next: the stage queue rebuilt by `owner`
queued(c, owner, stages) ==
    [c EXCEPT !.index = 0, !.nexts = stages, !.queue = owner, !.qid = @ + 1]

\* nothing written to the http.ResponseWriter yet
NoWrite == [code |-> 0, text |-> ""]

\* Site.newContext, Site.Serve lines 730-753 and Site.open.  Result is the
\* state of the last ctx.Result; uploadfiles the temp files to remove and disk
\* the temp files that exist; streams the io.ReadClosers handed to Buffer,
\* each open or closed, and misused whether the encoder has read a closed
\* one; wrote what the encoder has written; Json the value a JSON, JSONP or
\* echo payload holds; cookies the cookies set, by name, and setCookies the
\* Set-Cookie headers written
newContext(site, name, req) ==
    With(IF name \in DOMAIN site.routerInfos THEN site.routerInfos[name].Router ELSE "",
         LAMBDA router :
        queued([site |-> site.Name, Name |-> router,
                Config |-> IF name \in DOMAIN site.routerInfos /\ router \in DOMAIN site.routers
                           THEN site.routers[router] ELSE ZeroRouter,
                Method |-> ToUpper(req.Method), Host |-> requestHost(req.Host),
                req |-> req, index |-> 0, nexts |-> <<>>, queue |-> "", qid |-> 0,
                Code |-> 0, Body |-> "", Text |-> "", headers |-> EmptyMap,
                sent |-> FALSE, Result |-> "", uploadfiles |-> <<>>, disk |-> {},
                streams |-> <<>>, misused |-> FALSE, wrote |-> NoWrite,
                Json |-> "", cookies |-> EmptyMap, setCookies |-> {}],
               "open", <<"preprocessing">> \o site.serveFilters \o <<"serve">>))

\* a serve level that does not respond once its queue has returned
afterNextNoResponse(fn) ==
    CASE fn = "Serve"    -> <<"close">>
      [] fn = "response" -> <<"body">>
      [] OTHER           -> <<>>

\* what a function still does once its ctx.Next() has returned:
\* Site.Serve closes, serve responds, response encodes
afterNext(fn) ==
    CASE fn = "Serve"    -> <<"close">>
      [] fn = "serve"    -> <<"response">>
      [] fn = "response" -> <<"body">>
      [] OTHER           -> <<>>

\* a step of the request in flight leaves the module alone
RequestStep ==
    UNCHANGED <<override, opened, started, drivers, config, configs, routers,
                filters, handlers, sites, siteHosts, defaultSite, cross, instance,
                mutex, procs, calls, regLog, handlerLog, setupDone, last>>

\* func (m *Module) Serve(name, params, res, req), up to site.open's ctx.Next()
Serve(name, req) ==
    /\ pc.op \in {"idle", "done", "panic"}
    /\ instance.present /\ instance.connect /\ instance.started
    /\ name \in arriving(req.Host)
    /\ LET selected == selectSite(name, req.Host)
       IN /\ IF selected \in DOMAIN sites
             THEN /\ ctx' = newContext(sites[selected], serveRouterName(name), req)
                  /\ pc' = AtNext
                  /\ stack' = afterNext("Serve")
             ELSE /\ ctx' = NoContext
                  /\ pc' = Idle
                  /\ stack' = <<>>
          /\ last' = [op |-> "Serve", name |-> name, host |-> req.Host,
                      byName |-> siteByName(name),
                      byHost |-> IF siteByName(name) = ""
                                 THEN resolveSiteByHost(req.Host) ELSE "",
                      site |-> selected, served |-> selected \in DOMAIN sites,
                      sealed |-> opened]
    /\ ran' = <<>>
    /\ calls' = calls + 1
    /\ UNCHANGED <<override, opened, started, drivers, config, configs, routers,
                   filters, handlers, sites, siteHosts, defaultSite, cross, instance,
                   mutex, procs, regLog, handlerLog, setupDone>>

----------------------------------------------------------------------------
(* The request pipeline: component.go 761-896, request.go, context.go 61-99,
   body.go 53-101 *)

StatusOK == 200
StatusBadRequest == 400
StatusUnauthorized == 401
StatusNotFound == 404
StatusInternalServerError == 500

\* the stages the engine itself supplies; any other stage is a registered callback
Builtin ==
    {"preprocessing", "serve", "finding", "request", "crossing", "parsing",
     "authorizing", "arguing", "execute", "response", "body", "close",
     "found", "error", "failed", "denied",
     "foundDefault", "errorDefault", "failedDefault", "deniedDefault"}

\* history: the stage at pc has run; `did` is how it ended ("Next": it
\* called ctx.Next(); "return": it returned; a chain's name: it handed over
\* to that terminal chain and returned); `qid` is the queue it was taken from,
\* 0 for a function that is called directly
Ran(did, qid) ==
    ran' = Append(ran, [stage |-> pc.fn, queue |-> IF qid = 0 THEN "" ELSE ctx.queue,
                        qid |-> qid, did |-> did])

\* func (ctx *Context) Next()
ContextNext ==
    /\ pc.op = "Next"
    /\ IF Len(ctx.nexts) > ctx.index
       THEN /\ ctx' = [ctx EXCEPT !.index = @ + 1]
            /\ pc' = IF ctx.nexts[ctx.index + 1] # NIL
                     THEN Calling(ctx.nexts[ctx.index + 1]) ELSE AtNext
       ELSE /\ pc' = AtReturn
            /\ UNCHANGED ctx
    /\ UNCHANGED <<stack, ran>>
    /\ RequestStep

\* the chain of calls unwinds to the nearest function with work left after
\* its ctx.Next()
Return ==
    /\ pc.op = "return"
    /\ Len(stack) > 0
    /\ pc' = Calling(Head(stack))
    /\ stack' = Tail(stack)
    /\ UNCHANGED <<ctx, ran>>
    /\ RequestStep

\* func (site *Site) preprocessing(ctx): token, Ajax and language; always Next
preprocessing ==
    /\ pc = Calling("preprocessing")
    /\ pc' = AtNext
    /\ Ran("Next", ctx.qid)
    /\ UNCHANGED <<ctx, stack>>
    /\ RequestStep

\* func (site *Site) serve(ctx)
serve ==
    /\ pc = Calling("serve")
    /\ ctx' = queued(ctx, "serve",
                     <<"finding">> \o sites[ctx.site].requestFilters \o <<"request">>)
    /\ stack' = afterNext("serve") \o stack
    /\ pc' = AtNext
    /\ Ran("Next", ctx.qid)
    /\ RequestStep

\* func (ctx *Context) clearBody(): the stream of a buffer payload is closed
clearBody(c) ==
    IF c.Body = "buffer" THEN [c EXCEPT !.streams[Len(c.streams)] = "closed"] ELSE c

\* func (ctx *Context) Text(text, code), File(file), Buffer(buffer, size),
\* Status(code): the payload set.  The stream a buffer payload holds is the
\* last of c.streams.
Text(c, text, code) ==
    [clearBody(c) EXCEPT !.Body = "text", !.Text = text,
                         !.Code = IF code > 0 THEN code ELSE @]
File(c, file) == [clearBody(c) EXCEPT !.Body = "file", !.Text = file]
Buffer(c) == [clearBody(c) EXCEPT !.Body = "buffer", !.streams = Append(@, "open")]
Status(c, code) == [clearBody(c) EXCEPT !.Code = code]

\* func (ctx *Context) JSON(json, args), JSONP(callback, json, args) and
\* Echo(res, args) for a nil res and the data v
JSON(c, v, code) ==
    [clearBody(c) EXCEPT !.Body = "json", !.Json = v,
                         !.Code = IF code > 0 THEN code ELSE @]
JSONP(c, callback, v, code) ==
    [clearBody(c) EXCEPT !.Body = "jsonp", !.Json = v, !.Text = callback,
                         !.Code = IF code > 0 THEN code ELSE @]
Echo(c, v) == [clearBody(c) EXCEPT !.Body = "echo", !.Json = v, !.Code = StatusOK]

\* func (ctx *Context) Cookie(key string, vals ...Any) with an http.Cookie,
\* and with nil
Cookie(c, key, cookie) == [c EXCEPT !.cookies = Put(@, key, cookie)]
CookieNil(c, key) ==
    Cookie(c, key, [Name |-> key, Path |-> "", HttpOnly |-> TRUE, MaxAge |-> -1])

\* func (site *Site) finding(ctx)
finding ==
    /\ pc = Calling("finding")
    /\ IF ctx.Name = ""
       THEN IF ctx.req.Static # "" /\ ~Includes(ctx.req.Static, "../")
            THEN /\ ctx' = File(ctx, ctx.req.Static)
                 /\ pc' = AtReturn
                 /\ Ran("return", ctx.qid)
            ELSE /\ pc' = Calling("found")
                 /\ Ran("found", ctx.qid)
                 /\ UNCHANGED ctx
       ELSE /\ pc' = AtNext
            /\ Ran("Next", ctx.qid)
            /\ UNCHANGED ctx
    /\ UNCHANGED stack
    /\ RequestStep

\* func (site *Site) request(ctx)
request ==
    /\ pc = Calling("request")
    /\ ctx' = queued(ctx, "request",
                     <<"crossing", "parsing", "authorizing", "arguing", "execute">>)
    /\ pc' = AtNext
    /\ Ran("Next", ctx.qid)
    /\ UNCHANGED stack
    /\ RequestStep

\* strings.Split(s, ","), each part lower-cased and trimmed, empty ones dropped
RECURSIVE splitCSV(_)
splitCSV(v) ==
    With(IndexOf(v, ","), LAMBDA i :
    With(TrimSpace(ToLower(IF i = 0 THEN v ELSE SubSeq(v, 1, i - 1))), LAMBDA p :
        (IF p = "" THEN <<>> ELSE <<p>>)
            \o (IF i = 0 THEN <<>> ELSE splitCSV(SubSeq(v, i + 1, Len(v))))))

\* func containsAll(got []string, allow []string) bool
containsAll(got, allow) ==
    \A i \in 1..Len(got) :
        \E j \in 1..Len(allow) :
            ToLower(TrimSpace(allow[j])) # "" /\ ToLower(TrimSpace(allow[j])) = got[i]

\* func containsOrigin(origins []string, origin string) bool
containsOrigin(origins, origin0) ==
    With(ToLower(TrimSpace(origin0)), LAMBDA origin :
        \E j \in 1..Len(origins) :
            With(ToLower(TrimSpace(origins[j])), LAMBDA item :
                item # "" /\ (origin = item \/ HasPrefix(origin, item))))

\* func containsString(vals []string, target string) bool
containsString(vals, target) ==
    \E j \in 1..Len(vals) : ToLower(TrimSpace(vals[j])) = ToLower(TrimSpace(target))

\* crossing, lines 87-104: the three checks
originPassed(c, origin) ==
    \/ c.Origin = "*" \/ c.Origin = "" \/ containsString(c.Origins, "*")
    \/ origin # "" /\ containsOrigin(c.Origins, origin)

methodPassed(c, method) ==
    \/ c.Method = "*" \/ c.Method = "" \/ containsString(c.Methods, "*")
    \/ method = "" \/ containsAll(splitCSV(method), c.Methods)

headerPassed(c, header) ==
    \/ c.Header = "*" \/ c.Header = "" \/ containsString(c.Headers, "*")
    \/ header = "" \/ containsAll(splitCSV(header), c.Headers)

crossPassed(c, req) ==
    /\ c.Allow
    /\ originPassed(c, req.Origin)
    /\ methodPassed(c, req.RequestMethod)
    /\ headerPassed(c, req.RequestHeaders)

\* crossing, lines 106-118: the response headers of a request that passed
crossHeaders(h, req) ==
    With(Put(h, "Access-Control-Allow-Credentials", "true"), LAMBDA h1 :
    With(IF req.Origin # "" THEN Put(h1, "Access-Control-Allow-Origin", req.Origin)
         ELSE h1, LAMBDA h2 :
    With(IF req.RequestMethod # ""
         THEN Put(h2, "Access-Control-Allow-Methods", req.RequestMethod) ELSE h2, LAMBDA h3 :
        IF req.RequestHeaders # ""
        THEN Put(Put(h3, "Access-Control-Allow-Headers", req.RequestHeaders),
                 "Access-Control-Expose-Headers", req.RequestHeaders)
        ELSE h3)))

\* func (site *Site) crossing(ctx)
crossing ==
    /\ pc = Calling("crossing")
    /\ IF crossPassed(sites[ctx.site].Cross, ctx.req)
       THEN IF ctx.Method = "OPTIONS"
            THEN /\ ctx' = Text([ctx EXCEPT !.headers = crossHeaders(@, ctx.req)],
                                "cross domain access allowed.", StatusOK)
                 /\ pc' = AtReturn
                 /\ Ran("return", ctx.qid)
            ELSE /\ ctx' = [ctx EXCEPT !.headers = crossHeaders(@, ctx.req)]
                 /\ pc' = AtNext
                 /\ Ran("Next", ctx.qid)
       ELSE /\ pc' = AtNext
            /\ Ran("Next", ctx.qid)
            /\ UNCHANGED ctx
    /\ UNCHANGED stack
    /\ RequestStep

\* func (ctx *Context) uploadFile(patterns): os.CreateTemp in the upload
\* directory, which applyDefaults never leaves empty, and the file recorded
uploadFile(c, file) ==
    [c EXCEPT !.uploadfiles = Append(@, file), !.disk = @ \cup {file}]

\* parsing, lines 300-329: for _, f := range vs
RECURSIVE uploadFiles(_, _)
uploadFiles(c, files) ==
    IF files = <<>> THEN c ELSE uploadFiles(uploadFile(c, Head(files)), Tail(files))

\* func (site *Site) parsing(ctx): the body is read into ctx, the files of a
\* multipart form into temp files; always Next
parsing ==
    /\ pc = Calling("parsing")
    /\ ctx' = IF ctx.Method # "GET" THEN uploadFiles(ctx, ctx.req.Files) ELSE ctx
    /\ pc' = AtNext
    /\ Ran("Next", ctx.qid)
    /\ UNCHANGED stack
    /\ RequestStep

\* an authorizing that asks for the authentication before the signature
gateAuthFirst(c) ==
    IF c.Config.Auth /\ ~c.req.Authed THEN "unauthed"
    ELSE IF c.Config.Sign /\ ~c.req.Signed THEN "unsigned"
    ELSE ""

\* authorizing, lines 210-225: the gate that turns the request away,
\* "" when both let it pass
gate(c) ==
    IF c.Config.Sign /\ ~c.req.Signed THEN "unsigned"
    ELSE IF c.Config.Auth /\ ~c.req.Authed THEN "unauthed"
    ELSE ""

\* func (site *Site) authorizing(ctx)
authorizing ==
    /\ pc = Calling("authorizing")
    /\ IF gate(ctx) # ""
       THEN /\ ctx' = [ctx EXCEPT !.Result = gate(ctx)]
            /\ pc' = Calling("denied")
            /\ Ran("denied", ctx.qid)
       ELSE /\ pc' = AtNext
            /\ Ran("Next", ctx.qid)
            /\ UNCHANGED ctx
    /\ UNCHANGED stack
    /\ RequestStep

\* an arguing that lets every request through
argsFailNever(c) == FALSE

\* arguing, lines 358-363: the route has a schema and Mapping fails
argsFail(c) == DOMAIN c.Config.Args # {} /\ c.req.ArgsFail

\* func (site *Site) arguing(ctx)
arguing ==
    /\ pc = Calling("arguing")
    /\ IF argsFail(ctx)
       THEN /\ ctx' = [ctx EXCEPT !.Result = "failed"]
            /\ pc' = Calling("failed")
            /\ Ran("failed", ctx.qid)
       ELSE /\ pc' = AtNext
            /\ Ran("Next", ctx.qid)
            /\ UNCHANGED ctx
    /\ UNCHANGED stack
    /\ RequestStep

\* func (site *Site) execute(ctx)
\* an execute level that runs the route's Action before its Actions
executeNextsActionFirst(c) ==
    sites[c.site].executeFilters
        \o (IF c.Config.Action # NIL THEN <<c.Config.Action>> ELSE <<>>)
        \o c.Config.Actions

\* execute: the stages it enqueues
executeNexts(c) ==
    sites[c.site].executeFilters \o c.Config.Actions
        \o (IF c.Config.Action # NIL THEN <<c.Config.Action>> ELSE <<>>)

execute ==
    /\ pc = Calling("execute")
    /\ ctx' = queued(ctx, "execute", executeNexts(ctx))
    /\ pc' = AtNext
    /\ Ran("Next", ctx.qid)
    /\ UNCHANGED stack
    /\ RequestStep

\* func (site *Site) response(ctx)
response ==
    /\ pc = Calling("response")
    /\ ctx' = queued(ctx, "response", sites[ctx.site].responseFilters)
    /\ stack' = afterNext("response") \o stack
    /\ pc' = AtNext
    /\ Ran("Next", 0)
    /\ RequestStep

\* net/http's StatusText, for the codes in use
StatusText(code) ==
    CASE code = StatusOK                  -> "OK"
      [] code = StatusBadRequest          -> "Bad Request"
      [] code = StatusUnauthorized        -> "Unauthorized"
      [] code = StatusNotFound            -> "Not Found"
      [] code = StatusInternalServerError -> "Internal Server Error"
      [] OTHER                            -> ""

\* func (site *Site) bodyDefault(ctx); http.NotFound writes its own text
bodyDefault(c) ==
    IF c.Code <= 0
    THEN [c EXCEPT !.Code = StatusNotFound,
                   !.wrote = [code |-> StatusNotFound, text |-> "404 page not found"]]
    ELSE [c EXCEPT !.wrote = [code |-> c.Code, text |-> StatusText(c.Code)]]

\* func (site *Site) bodyText(ctx, body)
bodyText(c) == [c EXCEPT !.wrote = [code |-> c.Code, text |-> c.Text]]

\* func (site *Site) bodyFile(ctx, body): http.ServeFile answers for itself
bodyFile(c) == [c EXCEPT !.wrote = [code |-> StatusOK, text |-> c.Text]]

\* func (site *Site) bodyBuffer(ctx, body): io.Copy from the stream, whatever
\* its state, then Close
bodyBuffer(c) ==
    [c EXCEPT !.misused = @ \/ c.streams[Len(c.streams)] = "closed",
              !.wrote = [code |-> c.Code,
                         text |-> IF c.streams[Len(c.streams)] = "open" THEN "stream" ELSE ""],
              !.streams[Len(c.streams)] = "closed"]

\* json.Marshal of the values modelled: nil, a map of such, and a channel,
\* which no encoder takes
Marshal(v) ==
    CASE v = "nil" -> [bytes |-> "null", err |-> ""]
      [] v = "map" -> [bytes |-> "{}", err |-> ""]
      [] OTHER     -> [bytes |-> "", err |-> "json: unsupported type: chan int"]

\* http.Error(res, err.Error(), StatusInternalServerError): fmt.Fprintln
httpError(c, text, code) == [c EXCEPT !.wrote = [code |-> code, text |-> text \o "\n"]]

\* an encoder that takes the failure to the status the context holds
bodyJsonKeepsCode(c, v) ==
    IF Marshal(v).err # ""
    THEN httpError(c, Marshal(v).err, c.Code)
    ELSE [c EXCEPT !.wrote = [code |-> c.Code, text |-> Marshal(v).bytes]]

\* func (site *Site) bodyJson(ctx, body)
bodyJson(c, v) ==
    IF Marshal(v).err # ""
    THEN httpError(c, Marshal(v).err, StatusInternalServerError)
    ELSE [c EXCEPT !.wrote = [code |-> c.Code, text |-> Marshal(v).bytes]]

\* func (site *Site) bodyJsonp(ctx, body); the callback's name is c.Text
bodyJsonp(c) ==
    IF Marshal(c.Json).err # ""
    THEN httpError(c, Marshal(c.Json).err, StatusInternalServerError)
    ELSE [c EXCEPT !.wrote = [code |-> c.Code,
                              text |-> c.Text \o "(" \o Marshal(c.Json).bytes \o ");"]]

\* func (site *Site) bodyEcho(ctx, body): the result map holds the data
bodyEcho(c) == bodyJson(c, IF c.Json = "chan" THEN "chan" ELSE "map")

\* body, lines 63-71: the cookies written
writeCookies(c) ==
    [c EXCEPT !.setCookies =
        {[Name |-> c.cookies[k].Name, Path |-> "/",
          HttpOnly |-> sites[c.site].Config.HttpOnly,
          MaxAge |-> IF sites[c.site].Config.MaxAge > 0
                     THEN sites[c.site].Config.MaxAge ELSE c.cookies[k].MaxAge]
            : k \in DOMAIN c.cookies}]

\* body, lines 54-56: the status code when none was set
bodyCode(c) == [c EXCEPT !.Code = IF @ <= 0 THEN StatusOK ELSE @]

\* body, lines 74-100: switch body := ctx.Body.(type), for the payloads modelled
encode(c) ==
    CASE c.Body = "text"   -> bodyText(c)
      [] c.Body = "json"   -> bodyJson(c, c.Json)
      [] c.Body = "jsonp"  -> bodyJsonp(c)
      [] c.Body = "echo"   -> bodyEcho(c)
      [] c.Body = "file"   -> bodyFile(c)
      [] c.Body = "buffer" -> bodyBuffer(c)
      [] OTHER             -> bodyDefault(c)

\* func (site *Site) body(ctx): the response encoder
body ==
    /\ pc = Calling("body")
    /\ ctx' = [encode(writeCookies(bodyCode(ctx))) EXCEPT !.sent = TRUE]
    /\ pc' = AtReturn
    /\ Ran("return", 0)
    /\ UNCHANGED stack
    /\ RequestStep

\* func (site *Site) close(ctx), and Site.Serve returns
close ==
    /\ pc = Calling("close")
    /\ ctx' = [ctx EXCEPT !.disk = @ \ Range(ctx.uploadfiles)]
    /\ pc' = Done
    /\ Ran("return", 0)
    /\ UNCHANGED stack
    /\ RequestStep

\* a terminal chain that queues its default ahead of the handlers
terminalDefaultFirst(c, chain, code, own, siteHandlers) ==
    queued([c EXCEPT !.Code = IF @ <= 0 THEN code ELSE @], chain,
           <<chain \o "Default">> \o (IF own # NIL THEN <<own>> ELSE <<>>) \o siteHandlers)

\* the terminal chain `chain` entered with default status `code`, the route's
\* own handler `own` first, then the site's handlers, then the default
terminal(c, chain, code, own, siteHandlers) ==
    queued([c EXCEPT !.Code = IF @ <= 0 THEN code ELSE @], chain,
           (IF own # NIL THEN <<own>> ELSE <<>>) \o siteHandlers \o <<chain \o "Default">>)

\* func (site *Site) found(ctx)
found ==
    /\ pc = Calling("found")
    /\ ctx' = terminal(ctx, "found", StatusNotFound, ctx.Config.Found,
                       sites[ctx.site].foundHandlers)
    /\ pc' = AtNext
    /\ Ran("Next", 0)
    /\ UNCHANGED stack
    /\ RequestStep

\* func (site *Site) error(ctx)
error ==
    /\ pc = Calling("error")
    /\ ctx' = terminal(ctx, "error", StatusInternalServerError, ctx.Config.Error,
                       sites[ctx.site].errorHandlers)
    /\ pc' = AtNext
    /\ Ran("Next", 0)
    /\ UNCHANGED stack
    /\ RequestStep

\* func (site *Site) failed(ctx)
failed ==
    /\ pc = Calling("failed")
    /\ ctx' = terminal(ctx, "failed", StatusBadRequest, ctx.Config.Failed,
                       sites[ctx.site].failedHandlers)
    /\ pc' = AtNext
    /\ Ran("Next", 0)
    /\ UNCHANGED stack
    /\ RequestStep

\* func (site *Site) denied(ctx)
denied ==
    /\ pc = Calling("denied")
    /\ ctx' = terminal(ctx, "denied", StatusUnauthorized, ctx.Config.Denied,
                       sites[ctx.site].deniedHandlers)
    /\ pc' = AtNext
    /\ Ran("Next", 0)
    /\ UNCHANGED stack
    /\ RequestStep

\* func (site *Site) foundDefault(ctx)
foundDefault ==
    /\ pc = Calling("foundDefault")
    /\ ctx' = Text(ctx, "Not Found", StatusNotFound)
    /\ pc' = AtReturn
    /\ Ran("return", ctx.qid)
    /\ UNCHANGED stack
    /\ RequestStep

\* func (site *Site) errorDefault(ctx)
errorDefault ==
    /\ pc = Calling("errorDefault")
    /\ ctx' = Text(ctx, "Internal Server Error", StatusInternalServerError)
    /\ pc' = AtReturn
    /\ Ran("return", ctx.qid)
    /\ UNCHANGED stack
    /\ RequestStep

\* func (site *Site) failedDefault(ctx)
failedDefault ==
    /\ pc = Calling("failedDefault")
    /\ ctx' = Text(ctx, "Bad Request", StatusBadRequest)
    /\ pc' = AtReturn
    /\ Ran("return", ctx.qid)
    /\ UNCHANGED stack
    /\ RequestStep

\* func (site *Site) deniedDefault(ctx)
deniedDefault ==
    /\ pc = Calling("deniedDefault")
    /\ ctx' = Text(ctx, "Unauthorized", StatusUnauthorized)
    /\ pc' = AtReturn
    /\ Ran("return", ctx.qid)
    /\ UNCHANGED stack
    /\ RequestStep

\* what a registered callback (a filter's stage, an action, a handler) may do
\* with the context before it returns: call ctx.Next(), return at once, set a
\* text or a buffer payload or a bare status, hand over to one of the
\* terminal chains, or panic
Moves ==
    {"Next", "return", "Text", "Buffer", "Status", "JSON", "JSONP", "Echo", "Cookie",
     "found", "error", "failed", "denied", "panic"}

\* the values a callback hands to JSON, JSONP and Echo
JsonValues == {"nil", "chan"}

\* the cookie a callback sets, as the caller made it
CallerCookie == [Name |-> "sid", Path |-> "/admin", HttpOnly |-> TRUE, MaxAge |-> 60]

\* a panic has unwound Site.Serve: the request is abandoned where it stood
Abandoned == [op |-> "panic", fn |-> ""]

\* a registered callback runs: ctxFunc(ctx)
Callback(move) ==
    /\ pc.op = "call"
    /\ pc.fn \notin Builtin
    /\ move \in Moves
    /\ pc' = CASE move = "Next" -> AtNext
               [] move \in {"return", "Text", "Buffer", "Status", "JSON", "JSONP", "Echo",
                            "Cookie"} -> AtReturn
               [] move = "panic" -> Abandoned
               [] OTHER -> Calling(move)
    /\ ctx' \in CASE move = "Text"   -> {Text(ctx, pc.fn, 0)}
                   [] move = "Buffer" -> {Buffer(ctx)}
                   [] move = "Status" -> {Status(ctx, StatusInternalServerError)}
                   [] move = "JSON"   -> {JSON(ctx, v, StatusBadRequest) : v \in JsonValues}
                   [] move = "JSONP"  -> {JSONP(ctx, "cb", "chan", 0)}
                   [] move = "Echo"   -> {Echo(ctx, "chan")}
                   [] move = "Cookie" -> {Cookie(ctx, "sid", CallerCookie), CookieNil(ctx, "sid")}
                   [] OTHER           -> {ctx}
    /\ Ran(move, ctx.qid)
    /\ UNCHANGED stack
    /\ RequestStep

----------------------------------------------------------------------------
(* The reverse URL builder: url.go *)

\* a value of a Map, with its dynamic type
StrVal(s) == [kind |-> "string", str |-> s, int |-> 0, bool |-> FALSE]
IntVal(n) == [kind |-> "int", str |-> "", int |-> n, bool |-> FALSE]
BoolVal(b) == [kind |-> "bool", str |-> "", int |-> 0, bool |-> b]

\* fmt.Sprintf("%v", v)
Sprint(v) ==
    CASE v.kind = "string" -> v.str
      [] v.kind = "int"    -> Itoa(v.int)
      [] OTHER             -> IF v.bool THEN "true" ELSE "false"

\* the printable ASCII characters in code order, but for the double quote
\* (34), the backslash (92) and the backquote (96), in four runs starting at
\* 32, 35, 93 and 97
AsciiFrom32 == " !"
AsciiFrom35 == "#$%&'()*+,-./0123456789:;<=>?@ABCDEFGHIJKLMNOPQRSTUVWXYZ["
AsciiFrom93 == "]^_"
AsciiFrom97 == "abcdefghijklmnopqrstuvwxyz{|}~"

\* the byte of a one-character string
Byte(c) ==
    IF Contains(AsciiFrom32, c) THEN 31 + IndexOf(AsciiFrom32, c)
    ELSE IF Contains(AsciiFrom35, c) THEN 34 + IndexOf(AsciiFrom35, c)
    ELSE IF Contains(AsciiFrom93, c) THEN 92 + IndexOf(AsciiFrom93, c)
    ELSE 96 + IndexOf(AsciiFrom97, c)

\* a < b as Go compares strings: byte-wise
RECURSIVE Less(_, _)
Less(a, b) ==
    IF Len(b) = 0 THEN FALSE
    ELSE IF Len(a) = 0 THEN TRUE
    ELSE IF Char(a, 1) = Char(b, 1) THEN Less(Tail(a), Tail(b))
    ELSE Byte(Char(a, 1)) < Byte(Char(b, 1))

\* sort.Strings over the keys S
RECURSIVE Sorted(_)
Sorted(S) ==
    IF S = {} THEN <<>>
    ELSE With(CHOOSE k \in S : \A other \in S \ {k} : Less(k, other), LAMBDA k :
            <<k>> \o Sorted(S \ {k}))

HexDigits == "0123456789ABCDEF"
Unreserved == "-_.~0123456789"

\* url.QueryEscape
RECURSIVE QueryEscape(_)
QueryEscape(s) ==
    IF Len(s) = 0 THEN ""
    ELSE With(Char(s, 1), LAMBDA c :
            (IF Contains(UpperLetters, c) \/ Contains(LowerLetters, c) \/ Contains(Unreserved, c)
             THEN c
             ELSE IF c = " " THEN "+"
             ELSE "%" \o Char(HexDigits, (Byte(c) \div 16) + 1)
                      \o Char(HexDigits, (Byte(c) % 16) + 1))
            \o QueryEscape(Tail(s)))

\* url.Values.Encode for single-valued keys taken in the order `keys`
RECURSIVE Encode(_, _)
Encode(q, keys) ==
    IF Len(keys) = 0 THEN ""
    ELSE QueryEscape(Head(keys)) \o "=" \o QueryEscape(Sprint(q[Head(keys)]))
            \o (IF Len(keys) > 1 THEN "&" ELSE "") \o Encode(q, Tail(keys))

\* bamgoo.Mapping(argsConfig, data, out, false, true, zone), a collaborator:
\* the values of the keys the schema names, each as supplied
Mapping(argsConfig, data) ==
    [k \in (DOMAIN argsConfig) \cap (DOMAIN data) |-> data[k]]

\* Route, lines 144-155: every `\{[^}]+\}` of the template replaced
RECURSIVE fillUri(_, _, _)
fillUri(uri, dataValues, params) ==
    With(IndexOf(uri, "{"), LAMBDA i :
        IF i = 0 THEN uri
        ELSE With(SubSeq(uri, i + 1, Len(uri)), LAMBDA rest :
             With(IndexOf(rest, "}"), LAMBDA j :
                IF j = 0 THEN uri
                ELSE IF j = 1 THEN SubSeq(uri, 1, i) \o fillUri(rest, dataValues, params)
                ELSE With(SubSeq(rest, 1, j - 1), LAMBDA key :
                        SubSeq(uri, 1, i - 1)
                        \o (IF key \in DOMAIN dataValues THEN Sprint(dataValues[key])
                            ELSE IF ("{" \o key \o "}") \in DOMAIN params
                            THEN Sprint(params["{" \o key \o "}"])
                            ELSE "")
                        \o fillUri(SubSeq(rest, j + 1, Len(rest)), dataValues, params)))))

\* func (u *webUrl) Site(name string, path string, options ...Map) string
Site(name, path, opts) ==
    IF name \notin DOMAIN sites /\ DEFAULT \notin DOMAIN sites THEN path
    ELSE With((IF name \in DOMAIN sites THEN sites[name] ELSE sites[DEFAULT]).Config,
              LAMBDA cfg :
         With(IF cfg.Domain # "" THEN cfg.Domain
              ELSE IF Len(cfg.Domains) > 0 THEN cfg.Domains[1]
              ELSE IF cfg.Host # "" THEN cfg.Host
              ELSE "localhost", LAMBDA host0 :
         With(IF ~Contains(host0, ":") /\ cfg.Port > 0 /\ cfg.Port # 80 /\ cfg.Port # 443
              THEN host0 \o ":" \o Itoa(cfg.Port) ELSE host0, LAMBDA host :
         With("[socket]" \in DOMAIN opts /\ opts["[socket]"].kind = "bool"
                 /\ opts["[socket]"].bool, LAMBDA socket :
         With("[ssl]" \in DOMAIN opts /\ opts["[ssl]"].kind = "bool"
                 /\ opts["[ssl]"].bool, LAMBDA ssl :
         With(IF ssl THEN (IF socket THEN "wss://" ELSE "https://")
              ELSE IF socket THEN "ws://" ELSE "http://", LAMBDA scheme :
            IF path = "" THEN scheme \o host
            ELSE IF ~HasPrefix(path, "/") THEN scheme \o host \o "/" \o path
            ELSE scheme \o host \o path))))))

\* Route, lines 34-38: a name that is a URL already
isUrl(name) ==
    \/ HasPrefix(name, "http://") \/ HasPrefix(name, "https://")
    \/ HasPrefix(name, "ws://") \/ HasPrefix(name, "wss://")

\* Route, lines 48-54: the name completed with a site
qualified(name, currSite) ==
    IF Contains(name, ".") THEN name
    ELSE IF currSite # "" THEN currSite \o "." \o name
    ELSE DEFAULT \o "." \o name

\* Route, lines 56-67: the keys of the three kinds
paramKeys(values) == {k \in DOMAIN values : HasPrefix(k, "{") /\ HasSuffix(k, "}")}
optionKeys(values) ==
    {k \in DOMAIN values : HasPrefix(k, "[") /\ HasSuffix(k, "]")} \ paramKeys(values)
queryKeys(values) == (DOMAIN values) \ (paramKeys(values) \cup optionKeys(values))

\* Route, lines 70-79: the sites a name's site part may stand for
targetSites(siteName, currSite) ==
    IF siteName # "*" THEN {siteName}
    ELSE IF currSite # "" THEN {currSite}
    ELSE IF DOMAIN sites = {} THEN {"*"}
    ELSE DOMAIN sites

\* Route, lines 81-85: the options with the site switch settled
switched(options, siteName, currSite) ==
    IF siteName # "" /\ siteName # currSite THEN Put(options, "[site]", StrVal(siteName))
    ELSE IF "[site]" \in DOMAIN options /\ currSite # ""
    THEN Put(options, "[site]", StrVal(currSite))
    ELSE options

\* Route, lines 95-111: the record the route name resolves to, "" when none
routeVariants(routeName) ==
    <<routeName, routeName \o ".get.0", routeName \o ".post.0", routeName \o ".*.0">>

resolveInfo(infos, routeName) ==
    With(SelectSeq(routeVariants(routeName), LAMBDA n : n \in DOMAIN infos), LAMBDA hits :
        IF Len(hits) = 0 THEN "" ELSE hits[1])

\* Route, lines 157-167: the query appended
withQuery(uri, querys) ==
    IF DOMAIN querys = {} THEN uri
    ELSE uri \o (IF Contains(uri, "?") THEN "&" ELSE "?")
             \o Encode(querys, Sorted(DOMAIN querys))

\* Route, lines 87-177, for the site name settled
routeIn(name, siteName, routeName, currSite, values) ==
    With(switched([k \in optionKeys(values) |-> values[k]], siteName, currSite),
         LAMBDA options :
    IF siteName \notin DOMAIN sites /\ DEFAULT \notin DOMAIN sites THEN name
    ELSE With((IF siteName \in DOMAIN sites THEN sites[siteName] ELSE sites[DEFAULT]).routerInfos,
              LAMBDA infos :
         With(resolveInfo(infos, routeName), LAMBDA hit :
            IF hit \notin DOMAIN infos THEN name
            ELSE With([k \in paramKeys(values) |-> values[k]], LAMBDA params :
                 With(Mapping(infos[hit].Args,
                              [kk \in {SubSeq(k, 2, Len(k) - 1) : k \in DOMAIN params}
                                  |-> params["{" \o kk \o "}"]]), LAMBDA dataValues :
                 With(withQuery(fillUri(infos[hit].Uri, dataValues, params),
                                [k \in queryKeys(values) |-> values[k]]), LAMBDA uri :
                    IF "[site]" \in DOMAIN options
                    THEN Site(IF options["[site]"].kind = "string" /\ options["[site]"].str # ""
                              THEN options["[site]"].str ELSE siteName,
                              uri, options)
                    ELSE uri))))))

\* func (u *webUrl) Route(name string, values ...Map) string: the strings it
\* may return, for u.ctx on site currSite at route currName ("" for no ctx)
Route(currSite, currName, name0, values) ==
    With(ToLower(name0), LAMBDA lower :
        IF isUrl(lower) THEN {lower}
        ELSE With(qualified(IF currSite # "" /\ lower = "" THEN currName ELSE lower, currSite),
                  LAMBDA name :
             With(splitPrefix(name), LAMBDA sp :
                {routeIn(name, siteName, sp[2], currSite, values)
                    : siteName \in targetSites(sp[1], currSite)})))

\* a call of Route by the application
RouteCall(currSite, currName, name, values) ==
    /\ currSite = "" \/ currSite \in DOMAIN sites
    /\ \E result \in Route(currSite, currName, name, values) :
          last' = [op |-> "Route", name |-> name, values |-> values,
                   currSite |-> currSite, result |-> result, sealed |-> opened]
    /\ ModuleCall
    /\ UNCHANGED <<override, opened, started, drivers, config, configs, routers, filters,
                   handlers, sites, siteHosts, defaultSite, cross, instance, regLog, handlerLog,
                   setupDone>>

\* a call of Site by the application
SiteCall(name, path, opts) ==
    /\ last' = [op |-> "Site", name |-> name, path |-> path, opts |-> opts,
                result |-> Site(name, path, opts), sealed |-> opened]
    /\ ModuleCall
    /\ UNCHANGED <<override, opened, started, drivers, config, configs, routers, filters,
                   handlers, sites, siteHosts, defaultSite, cross, instance, regLog, handlerLog,
                   setupDone>>

----------------------------------------------------------------------------
(* Registration by goroutines: each Register* call is m.mutex.Lock(), the
   body, and the deferred m.mutex.Unlock(); module.go 150-187, component.go
   74-122 *)

Procs == {"g1", "g2", "g3"}

\* a goroutine that has made no call yet
Ready == [at |-> "ready"]

\* the table a Register* call writes, and the name it writes under
tableOf(kind) ==
    CASE kind = "Driver"  -> drivers
      [] kind = "Config"  -> configs
      [] kind = "Router"  -> routers
      [] kind = "Filter"  -> filters
      [] kind = "Handler" -> handlers

keyOf(kind, name) ==
    CASE kind = "Driver" -> IF name = "" THEN DEFAULT ELSE name
      [] kind = "Config" -> ToLower(IF name = "" THEN DEFAULT ELSE name)
      [] OTHER           -> ToLower(name)

\* the goroutines that have taken the mutex so far
Locked == {q \in Procs : procs[q].at \in {"body", "store", "unlock", "done"}}

\* a mutex that any goroutine may take at any time
mayLockAlways == TRUE

\* m.mutex.Lock() returns only for one goroutine at a time
mayLock == mutex = ""

\* goroutine p calls Register<kind>(name, value)
RegisterCall(p, kind, name, value) ==
    /\ procs[p].at = "ready"
    /\ procs' = [procs EXCEPT ![p] = [at |-> "lock", kind |-> kind, name |-> name,
                                      value |-> value, turn |-> 0, found |-> FALSE]]
    /\ UNCHANGED <<override, opened, started, drivers, config, configs, routers, filters,
                   handlers, sites, siteHosts, defaultSite, cross, instance, mutex, ctx, pc,
                   stack, ran, calls, regLog, handlerLog, setupDone, last>>

\* m.mutex.Lock()
RegisterLock(p) ==
    /\ procs[p].at = "lock"
    /\ mayLock
    /\ mutex' = p
    /\ procs' = [procs EXCEPT ![p].at = "body", ![p].turn = Cardinality(Locked) + 1]
    /\ UNCHANGED <<override, opened, started, drivers, config, configs, routers, filters,
                   handlers, sites, siteHosts, defaultSite, cross, instance, ctx, pc,
                   stack, ran, calls, regLog, handlerLog, setupDone, last>>

\* if m.opened { return }; name = strings.ToLower(name); _, ok := m.<table>[name]
\* (RegisterDriver does not look at m.opened)
RegisterLookup(p) ==
    /\ procs[p].at = "body"
    /\ procs' = [procs EXCEPT
                    ![p].at = IF opened /\ procs[p].kind # "Driver" THEN "unlock" ELSE "store",
                    ![p].found = keyOf(procs[p].kind, procs[p].name)
                                    \in DOMAIN tableOf(procs[p].kind)]
    /\ UNCHANGED <<override, opened, started, drivers, config, configs, routers, filters,
                   handlers, sites, siteHosts, defaultSite, cross, instance, mutex, ctx, pc,
                   stack, ran, calls, regLog, handlerLog, setupDone, last>>

\* if bamgoo.Override() { m.<table>[name] = v } else if !ok { m.<table>[name] = v }
RegisterStore(p) ==
    /\ procs[p].at = "store"
    /\ LET kind == procs[p].kind
           put == override \/ ~procs[p].found
           stored(t) == IF put THEN Put(t, keyOf(kind, procs[p].name), procs[p].value) ELSE t
       IN /\ drivers'  = IF kind = "Driver"  THEN stored(drivers)  ELSE drivers
          /\ configs'  = IF kind = "Config"  THEN stored(configs)  ELSE configs
          /\ routers'  = IF kind = "Router"  THEN stored(routers)  ELSE routers
          /\ filters'  = IF kind = "Filter"  THEN stored(filters)  ELSE filters
          /\ handlers' = IF kind = "Handler" THEN stored(handlers) ELSE handlers
    /\ procs' = [procs EXCEPT ![p].at = "unlock"]
    /\ UNCHANGED <<override, opened, started, config, sites, siteHosts, defaultSite, cross,
                   instance, mutex, ctx, pc, stack, ran, calls, regLog, handlerLog,
                   setupDone, last>>

\* defer m.mutex.Unlock()
RegisterUnlock(p) ==
    /\ procs[p].at = "unlock"
    /\ mutex' = IF mutex = p THEN "" ELSE mutex
    /\ procs' = [procs EXCEPT ![p].at = "done"]
    /\ UNCHANGED <<override, opened, started, drivers, config, configs, routers, filters,
                   handlers, sites, siteHosts, defaultSite, cross, instance, ctx, pc,
                   stack, ran, calls, regLog, handlerLog, setupDone, last>>

----------------------------------------------------------------------------
(* The state after construction: module.go 21-32, and the default driver's
   init(), component.go 559-561 *)

Init ==
    /\ override \in BOOLEAN
    /\ opened = FALSE
    /\ started = FALSE
    /\ drivers = Put(EmptyMap, DEFAULT, "defaultDriver")
    /\ config = ZeroConfig
    /\ configs = EmptyMap
    /\ routers = EmptyMap
    /\ filters = EmptyMap
    /\ handlers = EmptyMap
    /\ sites = EmptyMap
    /\ siteHosts = EmptyMap
    /\ defaultSite = DEFAULT
    /\ cross = defaultCross
    /\ instance = NoInstance
    /\ mutex = ""
    /\ procs = [p \in Procs |-> Ready]
    /\ ctx = NoContext
    /\ pc = Idle
    /\ stack = <<>>
    /\ ran = <<>>
    /\ calls = 0
    /\ regLog = <<>>
    /\ handlerLog = <<>>
    /\ setupDone = FALSE
    /\ last = [op |-> "init", name |-> "", sealed |-> FALSE]

----------------------------------------------------------------------------
(* Spec: the registry and the lifecycle *)

MaxCalls == 3

RegDrivers == {<<"Fast", "d1">>, <<"fast", "d2">>, <<"fast", "d3">>}

RegConfigs ==
    {<<"Shop", [ZeroConfig EXCEPT !.Domain = "shop.io"]>>,
     <<"shop", [ZeroConfig EXCEPT !.Domain = "s.io"]>>,
     <<"shop", [ZeroConfig EXCEPT !.Port = 81]>>}

RegRouters ==
    {<<"Shop.Item", [ZeroRouter EXCEPT !.Uri = "/a", !.Action = "act1"]>>,
     <<"shop.item", [ZeroRouter EXCEPT !.Uri = "/b", !.Action = "act2"]>>,
     <<"shop.item", [ZeroRouter EXCEPT !.Uri = "/c", !.Sign = TRUE]>>,
     <<"*.item", [ZeroRouter EXCEPT !.Uri = "/d", !.Action = "act4"]>>}

RegFilters ==
    {<<"Shop.Log", [ZeroFilter EXCEPT !.Serve = "f1"]>>,
     <<"shop.log", [ZeroFilter EXCEPT !.Request = "f2"]>>,
     <<"shop.log", [ZeroFilter EXCEPT !.Serve = "f3"]>>,
     <<"*.log", [ZeroFilter EXCEPT !.Serve = "f4"]>>}

RegHandlers ==
    {<<"Shop.Err", [ZeroHandler EXCEPT !.Found = "h1"]>>,
     <<"shop.err", [ZeroHandler EXCEPT !.Error = "h2"]>>,
     <<"shop.err", [ZeroHandler EXCEPT !.Found = "h3"]>>,
     <<"*.err", [ZeroHandler EXCEPT !.Found = "h4"]>>}

ZeroConf ==
    [Driver |-> "", Port |-> 0, Host |-> "", Domain |-> "", Domains |-> <<>>,
     MaxAge |-> 0, HttpOnly |-> FALSE, Static |-> ""]

Globals ==
    {[hasWeb |-> TRUE, web |-> [ZeroConf EXCEPT !.Driver = "Fast"],
      webSites |-> EmptyMap,
      sites |-> Put(EmptyMap, "Blog", [ZeroConf EXCEPT !.Domain = "blog.io"]),
      hasCross |-> TRUE, cross |-> Put(EmptyMap, "origin", "https://x.test")]}

Next ==
    \/ calls < MaxCalls /\ \E r \in RegDrivers : RegisterDriver(r[1], r[2])
    \/ calls < MaxCalls /\ \E r \in RegConfigs : RegisterConfig(r[1], r[2])
    \/ calls < MaxCalls /\ \E r \in RegRouters : RegisterRouter(r[1], r[2])
    \/ calls < MaxCalls /\ \E r \in RegFilters : RegisterFilter(r[1], r[2])
    \/ calls < MaxCalls /\ \E r \in RegHandlers : RegisterHandler(r[1], r[2])
    \/ calls < MaxCalls /\ \E g \in Globals : Config(g)
    \/ calls < MaxCalls /\ Setup
    \/ calls < MaxCalls /\ Open
    \/ calls < MaxCalls /\ Start
    \/ calls < MaxCalls /\ Stop
    \/ calls < MaxCalls /\ Close

Spec == Init /\ [][Next]_vars

----------------------------------------------------------------------------
(* SpecHost: sites with hosts are configured, the module is set up, opened
   and started, and a request is dispatched *)

MaxHostRegs == 3

HostConfigs ==
    {<<"exact", [ZeroConfig EXCEPT !.Domain = "a.example.com"]>>,
     <<"wide", [ZeroConfig EXCEPT !.Domain = "*.example.com"]>>,
     <<"com", [ZeroConfig EXCEPT !.Domains = <<"*.com">>]>>,
     <<"twin", [ZeroConfig EXCEPT !.Domain = "https://A.Example.com:443/"]>>}

HostRouters ==
    {<<"shop.item", [ZeroRouter EXCEPT !.Uri = "/item", !.Action = "show"]>>,
     <<"home", [ZeroRouter EXCEPT !.Uri = "/", !.Action = "index"]>>}

HostRequests ==
    {Request(h, "GET", "") : h \in {"a.example.com", "A.example.com:8080",
                                     "b.a.example.com", "x.com", "nowhere.org", ""}}

NextHost ==
    \/ /\ calls < MaxHostRegs /\ ~setupDone
       /\ \E r \in HostConfigs : ToLower(r[1]) \notin DOMAIN configs /\ RegisterConfig(r[1], r[2])
    \/ /\ calls < MaxHostRegs /\ ~setupDone
       /\ \E r \in HostRouters : ToLower(r[1]) \notin DOMAIN routers /\ RegisterRouter(r[1], r[2])
    \/ ~setupDone /\ Setup
    \/ setupDone /\ ~opened /\ Open
    \/ opened /\ ~started /\ Start
    \/ \E req \in HostRequests : \E name \in arriving(req.Host) : Serve(name, req)

SpecHost == Init /\ [][NextHost]_vars

----------------------------------------------------------------------------
(* SpecPipe: a route, a filter and two handlers are registered, the module
   is set up, opened and started, and a request runs through the pipeline,
   its callbacks advancing, halting or handing over to a terminal chain *)

MaxPipeRegs == 4
MaxPipeCalls == 8
MaxChains == 1

PipeRouters ==
    {<<"item", [ZeroRouter EXCEPT !.Uri = "/item", !.Actions = <<NIL, "load">>,
                                  !.Action = "show", !.Sign = TRUE, !.Auth = TRUE,
                                  !.Args = Put(EmptyMap, "id", "int"),
                                  !.Failed = "item.failed"]>>}

PipeFilters ==
    {<<"log", [Serve |-> "log.serve", Request |-> "log.request",
               Execute |-> "log.execute", Response |-> "log.response"]>>}

PipeHandlers ==
    {<<"page", [ZeroHandler EXCEPT !.Found = "page.found", !.Failed = "page.failed",
                                   !.Denied = "page.denied"]>>,
     <<"auth", [ZeroHandler EXCEPT !.Denied = "auth.denied"]>>}

PipeRequests ==
    {[Request("x.io", "GET", "") EXCEPT !.Signed = TRUE, !.Authed = TRUE],
     [Request("x.io", "GET", "") EXCEPT !.Signed = TRUE, !.Authed = TRUE, !.ArgsFail = TRUE],
     Request("x.io", "GET", ""),
     [Request("x.io", "GET", "") EXCEPT !.Signed = TRUE],
     [Request("x.io", "options", "https://x.test") EXCEPT !.Static = "/srv/index.html"]}

\* the moves of a callback in SpecPipe; the failed and denied chains are
\* entered there by arguing and authorizing
PipeMoves == {"Next", "return", "Text", "found", "error"}

\* the times a callback of the request in flight has handed over to a
\* terminal chain
chainsEntered ==
    Cardinality({i \in 1..Len(ran) :
                    /\ ran[i].stage \notin Builtin
                    /\ ran[i].did \in {"found", "error", "failed", "denied"}})

NextPipe ==
    \/ /\ calls < MaxPipeRegs /\ ~setupDone
       /\ \E r \in PipeRouters : ToLower(r[1]) \notin DOMAIN routers /\ RegisterRouter(r[1], r[2])
    \/ /\ calls < MaxPipeRegs /\ ~setupDone
       /\ \E r \in PipeFilters : ToLower(r[1]) \notin DOMAIN filters /\ RegisterFilter(r[1], r[2])
    \/ /\ calls < MaxPipeRegs /\ ~setupDone
       /\ \E r \in PipeHandlers : ToLower(r[1]) \notin DOMAIN handlers /\ RegisterHandler(r[1], r[2])
    \/ ~setupDone /\ Setup
    \/ setupDone /\ ~opened /\ Open
    \/ opened /\ ~started /\ Start
    \/ /\ calls < MaxPipeCalls /\ pc.op = "idle"
       /\ \E req \in PipeRequests : \E name \in arriving(req.Host) : Serve(name, req)
    \/ ContextNext
    \/ Return
    \/ preprocessing
    \/ serve
    \/ finding
    \/ request
    \/ crossing
    \/ parsing
    \/ authorizing
    \/ arguing
    \/ execute
    \/ response
    \/ body
    \/ close
    \/ found
    \/ error
    \/ failed
    \/ denied
    \/ foundDefault
    \/ errorDefault
    \/ failedDefault
    \/ deniedDefault
    \/ \E move \in PipeMoves :
          /\ move \in {"found", "error", "failed", "denied"} => chainsEntered < MaxChains
          /\ Callback(move)

InitPipe == Init /\ ~override

SpecPipe == InitPipe /\ [][NextPipe]_vars

----------------------------------------------------------------------------
(* SpecBody: a route and a response filter are registered and a cross-origin
   policy configured, the module is set up, opened and started, and a request
   runs through the pipeline, its callbacks also setting payloads and
   panicking *)

MaxBodyRegs == 3
MaxBodyCalls == 7
MaxStreams == 1

BodyFilters == {<<"log", [ZeroFilter EXCEPT !.Response = "log.response"]>>}

\* a policy that names what it allows in the singular fields, and one that
\* names the same in the list fields
BodyGlobals ==
    {[hasWeb |-> FALSE, web |-> ZeroConf, webSites |-> EmptyMap, sites |-> EmptyMap,
      hasCross |-> TRUE,
      cross |-> Put(Put(Put(EmptyMap, "origin", "https://x.test"), "method", "POST"),
                    "header", "X-Token")],
     [hasWeb |-> FALSE, web |-> ZeroConf, webSites |-> EmptyMap, sites |-> EmptyMap,
      hasCross |-> TRUE,
      cross |-> Put(Put(Put(EmptyMap, "origins", <<"https://x.test">>), "methods", <<"POST">>),
                    "headers", <<"X-Token">>)]}

Preflight ==
    [Request("x.io", "options", "https://x.test") EXCEPT
        !.RequestMethod = "POST", !.RequestHeaders = "X-Token",
        !.Signed = TRUE, !.Authed = TRUE]

\* a site policy registered as a Config value, its max-age negative
BodyConfigs == {<<"", [ZeroConfig EXCEPT !.MaxAge = -1]>>}

BodyRequests ==
    {[Request("x.io", "POST", "") EXCEPT !.Signed = TRUE, !.Authed = TRUE,
                                         !.Files = <<"upload_1">>],
     [Request("x.io", "POST", "") EXCEPT !.Signed = TRUE, !.Authed = TRUE,
                                         !.ArgsFail = TRUE, !.Files = <<"upload_1">>],
     Request("x.io", "GET", ""),
     Preflight,
     [Preflight EXCEPT !.Origin = "https://evil.test"]}

NextBody ==
    \/ /\ calls < MaxBodyRegs /\ ~setupDone
       /\ \E r \in PipeRouters : ToLower(r[1]) \notin DOMAIN routers /\ RegisterRouter(r[1], r[2])
    \/ /\ calls < MaxBodyRegs /\ ~setupDone
       /\ \E r \in BodyFilters : ToLower(r[1]) \notin DOMAIN filters /\ RegisterFilter(r[1], r[2])
    \/ /\ calls < MaxBodyRegs /\ ~setupDone
       /\ \E r \in BodyConfigs : DEFAULT \notin DOMAIN configs /\ RegisterConfig(r[1], r[2])
    \/ /\ calls < MaxBodyRegs /\ ~setupDone /\ cross = defaultCross
       /\ \E g \in BodyGlobals : Config(g)
    \/ ~setupDone /\ Setup
    \/ setupDone /\ ~opened /\ Open
    \/ opened /\ ~started /\ Start
    \/ /\ calls < MaxBodyCalls /\ pc.op = "idle"
       /\ \E req \in BodyRequests : \E name \in arriving(req.Host) : Serve(name, req)
    \/ ContextNext
    \/ Return
    \/ preprocessing
    \/ serve
    \/ finding
    \/ request
    \/ crossing
    \/ parsing
    \/ authorizing
    \/ arguing
    \/ execute
    \/ response
    \/ body
    \/ close
    \/ found
    \/ error
    \/ failed
    \/ denied
    \/ foundDefault
    \/ errorDefault
    \/ failedDefault
    \/ deniedDefault
    \/ \E move \in Moves :
          /\ pc.op = "call"
          /\ move \in {"found", "error", "failed", "denied"} => chainsEntered < MaxChains
          /\ move = "Buffer" => Len(ctx.streams) < MaxStreams
          /\ Callback(move)

SpecBody == InitPipe /\ [][NextBody]_vars

----------------------------------------------------------------------------
(* SpecRoute: routes are declared, the route tables are built, and the
   application asks for URLs *)

MaxRouteRegs == 2
MaxRouteCalls == 4

RouteRouters ==
    {<<"user.profile", [ZeroRouter EXCEPT !.Uri = "/users/{id}", !.Action = "show"]>>,
     <<"User.Profile",
       [ZeroRouter EXCEPT !.Uris = <<"/u/{id}">>, !.Uri = "/users/{id}", !.Action = "any",
            !.Routing = Put(Put(EmptyMap, "get", [ZeroRouter EXCEPT !.Action = "read"]),
                            "POST", [ZeroRouter EXCEPT !.Action = "write"])]>>,
     <<"item",
       [ZeroRouter EXCEPT !.Uri = "/items", !.Actions = <<"auth">>,
            !.Args = Put(Put(EmptyMap, "page", "int"), "q", "string"),
            !.Routing = Put(EmptyMap, "get",
                            [ZeroRouter EXCEPT !.Action = "list",
                                               !.Args = Put(EmptyMap, "q", "text")])]>>,
     <<"*.ping", [ZeroRouter EXCEPT !.Uri = "/ping", !.Action = "pong"]>>}

RouteNames == {"user.profile", "User.Profile.*", "user.profile.get", "item", "*.ping"}

\* the site of the request being served when the application asks; "" outside a request
RouteSites == {"", "user"}

RouteValues ==
    {EmptyMap,
     Put(EmptyMap, "{id}", IntVal(42)),
     Put(Put(EmptyMap, "{id}", IntVal(42)), "tab", StrVal("posts")),
     Put(Put(EmptyMap, "q", StrVal("a b/c")), "[ssl]", BoolVal(TRUE))}

NextRoute ==
    \/ /\ calls < MaxRouteRegs /\ ~setupDone
       /\ \E r \in RouteRouters : ToLower(r[1]) \notin DOMAIN routers /\ RegisterRouter(r[1], r[2])
    \/ ~setupDone /\ Setup
    \/ /\ calls < MaxRouteCalls /\ setupDone
       /\ \E currSite \in RouteSites \cap ({""} \cup DOMAIN sites), name \in RouteNames, values \in RouteValues :
             RouteCall(currSite, "", name, values)

SpecRoute == Init /\ [][NextRoute]_vars

----------------------------------------------------------------------------
(* SpecConf: the process and its sites are configured, by configuration maps
   and by Config values, sites are named by routes, the module is set up,
   and the application asks for the sites' URLs *)

MaxConfRegs == 3
MaxConfCalls == 5

\* configuration maps: a process-wide domain, port and static root with a
\* site nested in the web map; a process-wide port with a site beside it;
\* a process-wide port alone
ConfGlobals ==
    {[hasWeb |-> TRUE,
      web |-> [ZeroConf EXCEPT !.Domain = "example.org", !.Port = 443, !.Static = "pub"],
      webSites |-> Put(EmptyMap, "shop", [ZeroConf EXCEPT !.Host = "10.0.0.2"]),
      sites |-> EmptyMap, hasCross |-> FALSE, cross |-> EmptyMap],
     [hasWeb |-> TRUE, web |-> [ZeroConf EXCEPT !.Port = 9000, !.HttpOnly = TRUE],
      webSites |-> EmptyMap,
      sites |-> Put(EmptyMap, "blog", [ZeroConf EXCEPT !.Domains = <<"blog.io", "b.io">>]),
      hasCross |-> FALSE, cross |-> EmptyMap],
     [hasWeb |-> TRUE, web |-> [ZeroConf EXCEPT !.Port = 80],
      webSites |-> EmptyMap, sites |-> EmptyMap, hasCross |-> FALSE, cross |-> EmptyMap]}

\* Config values: a static root that is the process-wide one, and another
ConfConfigs ==
    {<<"docs", [ZeroConfig EXCEPT !.Static = "pub"]>>,
     <<"wiki", [ZeroConfig EXCEPT !.Static = "w"]>>}

\* a route of site news; a route of two URIs with a per-method override; and
\* a route for every site whose override is keyed "get.1"
ConfRouters ==
    {<<"news.index", [ZeroRouter EXCEPT !.Uri = "/", !.Action = "index"]>>,
     <<"news.feed",
       [ZeroRouter EXCEPT !.Uri = "/feed", !.Uris = <<"/rss">>,
            !.Routing = Put(EmptyMap, "get", [ZeroRouter EXCEPT !.Action = "feed"])]>>,
     <<"*.feed",
       [ZeroRouter EXCEPT !.Uri = "/atom",
            !.Routing = Put(EmptyMap, "get.1", [ZeroRouter EXCEPT !.Action = "atom"])]>>}

ConfSites == {"shop", "blog", "docs", "wiki", "news"}
ConfPaths == {"", "a", "/a"}
ConfOpts ==
    {EmptyMap, Put(EmptyMap, "[ssl]", BoolVal(TRUE)), Put(EmptyMap, "[socket]", BoolVal(TRUE)),
     Put(Put(EmptyMap, "[ssl]", BoolVal(TRUE)), "[socket]", BoolVal(TRUE))}

NextConf ==
    \/ /\ calls < MaxConfRegs /\ ~setupDone
       /\ \E g \in ConfGlobals : Config(g)
    \/ /\ calls < MaxConfRegs /\ ~setupDone
       /\ \E r \in ConfConfigs : ToLower(r[1]) \notin DOMAIN configs /\ RegisterConfig(r[1], r[2])
    \/ /\ calls < MaxConfRegs /\ ~setupDone
       /\ \E r \in ConfRouters : ToLower(r[1]) \notin DOMAIN routers /\ RegisterRouter(r[1], r[2])
    \/ ~setupDone /\ Setup
    \/ /\ calls < MaxConfCalls /\ setupDone
       /\ \E name \in ConfSites \cap DOMAIN sites, path \in ConfPaths, opts \in ConfOpts :
             SiteCall(name, path, opts)

SpecConf == InitPipe /\ [][NextConf]_vars

----------------------------------------------------------------------------
(* SpecConc: goroutines register records under names that compete, each
   goroutine one call *)

ConcCalls ==
    {<<"Router", "Shop.Item", [ZeroRouter EXCEPT !.Uri = "/a", !.Action = "act1"]>>,
     <<"Router", "shop.item", [ZeroRouter EXCEPT !.Uri = "/b", !.Action = "act2"]>>,
     <<"Filter", "shop.log", [ZeroFilter EXCEPT !.Serve = "f1"]>>,
     <<"Handler", "shop.err", [ZeroHandler EXCEPT !.Found = "h1"]>>,
     <<"Config", "", [ZeroConfig EXCEPT !.Port = 81]>>,
     <<"Driver", "", "d1">>}

NextConc ==
    \/ \E p \in Procs, c \in ConcCalls : RegisterCall(p, c[1], c[2], c[3])
    \/ \E p \in Procs : RegisterLock(p)
    \/ \E p \in Procs : RegisterLookup(p)
    \/ \E p \in Procs : RegisterStore(p)
    \/ \E p \in Procs : RegisterUnlock(p)

SpecConc == Init /\ [][NextConc]_vars

----------------------------------------------------------------------------
(* SpecLife: the module is set up, opened, started, stopped and closed while
   the connector hands over requests for which no route is registered *)

MaxLifeCalls == 6

LifeRequests == {Request("x.io", "GET", "")}

NextLife ==
    \/ calls < MaxLifeCalls /\ ~opened /\ Setup
    \/ calls < MaxLifeCalls /\ setupDone /\ ~opened /\ Open
    \/ calls < MaxLifeCalls /\ ~started /\ Start
    \/ calls < MaxLifeCalls /\ started /\ Stop
    \/ calls < MaxLifeCalls /\ opened /\ Close
    \/ /\ calls < MaxLifeCalls /\ pc.op \in {"idle", "done"}
       /\ \E req \in LifeRequests : \E name \in arriving(req.Host) : Serve(name, req)
    \/ ContextNext
    \/ Return
    \/ preprocessing
    \/ serve
    \/ finding
    \/ found
    \/ foundDefault
    \/ response
    \/ body
    \/ close

SpecLife == InitPipe /\ [][NextLife]_vars

----------------------------------------------------------------------------
(* The claims *)

\* the keys of table t that are `name` up to letter case
SameName(t, name) == {k \in DOMAIN t : ToLower(k) = ToLower(name)}

\* the win policy for one registration of rec under name, from table old to new
WinPolicy(old, new, name, rec) ==
    SameName(old, name) # {} =>
        IF override
        THEN Cardinality(SameName(new, name)) = 1 /\ \A k \in SameName(new, name) : new[k] = rec
        ELSE new = old

\* C1: once the registry is sealed (opened = true), no call changes the
\* drivers, configs, routers, filters, handlers, the per-site tables or the
\* host table.
C1_SealedRegistryFrozen == [][opened => registry' = registry]_vars

\* C2: registering a name that is already stored (names compared without
\* letter case) leaves the table unchanged when the override policy is off, and
\* leaves exactly the new record under that name when it is on; for every one
\* of the five tables.
C2_WinPolicy ==
    [][(calls' # calls /\ ~opened) =>
        /\ last'.op = "RegisterDriver" => WinPolicy(drivers, drivers', last'.name, last'.value)
        /\ last'.op = "RegisterConfig" => WinPolicy(configs, configs', last'.name, last'.value)
        /\ last'.op = "RegisterRouter" => WinPolicy(routers, routers', last'.name, last'.value)
        /\ last'.op = "RegisterFilter" => WinPolicy(filters, filters', last'.name, last'.value)
        /\ last'.op = "RegisterHandler" => WinPolicy(handlers, handlers', last'.name, last'.value)
    ]_vars

\* the registered declarations that Setup applies to site s
Applying(s) == {k \in DOMAIN routers : splitPrefix(k)[1] \in {s, "*"}}

\* the sites whose route table comes from one declaration alone, with that
\* declaration; its method keys hold no dot
SoleDeclarations ==
    {<<s, k>> \in (DOMAIN sites) \X (DOMAIN routers) :
        /\ Applying(s) = {k}
        /\ \A m \in DOMAIN routers[k].Routing : ~Contains(m, ".")}

\* the kinds of record a declaration expands to: one per method key, keys
\* compared without letter case, and the generic `*` one when it has an Action
Kinds(decl) ==
    {ToLower(m) : m \in DOMAIN decl.Routing} \cup (IF decl.Action # NIL THEN {"*"} ELSE {})

JustSetUp == last.op = "Setup" /\ ~last.sealed

ServedByHost == last.op = "Serve" /\ last.byName = ""

\* the wildcard entries of the host table that the host h falls under
WildcardsOver(h) ==
    {w \in DOMAIN siteHosts :
        HasPrefix(w, "*.") /\ HasSuffix(h, SubSeq(w, 2, Len(w))) /\ Len(h) > Len(w) - 1}

\* C4: the site resolved for a request host is that of the exact entry of the
\* normalized host when there is one; otherwise that of the wildcard entry
\* with the longest suffix the host falls under; otherwise none.
C4_ExactThenLongestWildcard ==
    ServedByHost =>
        LET h == normalizeHost(last.host)
        IN IF h \in DOMAIN siteHosts THEN last.byHost = siteHosts[h]
           ELSE IF h # "" /\ WildcardsOver(h) # {}
           THEN \E w \in WildcardsOver(h) :
                   /\ \A v \in WildcardsOver(h) : Len(v) <= Len(w)
                   /\ last.byHost = siteHosts[w]
           ELSE last.byHost = ""

\* b.a.example.com has been resolved with *.example.com and *.com both entered
C4_Witness ==
    /\ ServedByHost
    /\ last.host = "b.a.example.com"
    /\ {"*.example.com", "*.com"} \subseteq DOMAIN siteHosts
    /\ siteHosts["*.example.com"] # siteHosts["*.com"]
    /\ last.byHost = siteHosts["*.example.com"]

Claimants(h) == SelectSeq(regLog, LAMBDA s : s \in DOMAIN sites /\ h \in Range(sites[s].Hosts))

\* C6: the host table maps every host to the first-registered of the sites
\* that configure it when the override policy is off, and to the
\* last-registered when it is on.
C6_HostWinnerByRegistration ==
    JustSetUp =>
        \A h \in DOMAIN siteHosts :
            Len(Claimants(h)) > 0 =>
                siteHosts[h] = IF override THEN Claimants(h)[Len(Claimants(h))]
                               ELSE Claimants(h)[1]

\* Route has been asked for user.profile, declared with the URI /users/{id}
ProfileAsked ==
    /\ last.op = "Route"
    /\ ToLower(last.name) = "user.profile"
    /\ setupDone
    /\ "user.profile" \in DOMAIN routers
    /\ mergedUris(routers["user.profile"]) = <<"/users/{id}">>

\* C7: Route("user.profile", {"{id}": 42}) is /users/42, and with tab=posts
\* beside it /users/42?tab=posts.
C7_RoundTrip ==
    ProfileAsked =>
        /\ last.values = Put(EmptyMap, "{id}", IntVal(42)) => last.result = "/users/42"
        /\ last.values = Put(Put(EmptyMap, "{id}", IntVal(42)), "tab", StrVal("posts"))
              => last.result = "/users/42?tab=posts"

\* the name Route looks up, completed with a site
AskedName == qualified(ToLower(last.name), last.currSite)

\* C8: a route name with no record of its own in the target site's table
\* resolves whenever the builder emitted its get, post or * variant.
C8_VariantFallback ==
    (last.op = "Route" /\ setupDone /\ ~isUrl(ToLower(last.name))) =>
        LET site == splitPrefix(AskedName)[1]
            routeName == splitPrefix(AskedName)[2]
        IN (/\ site \in DOMAIN sites
            /\ routeName \notin DOMAIN sites[site].routerInfos
            /\ \E v \in {".get", ".post", ".*"} :
                  (routeName \o v) \in DOMAIN sites[site].routerInfos)
           => last.result # AskedName

\* C9: a request that Site.Serve has finished has been through the response
\* encoder.
C9_AlwaysAResponse ==
    pc.op = "done" => \E i \in 1..Len(ran) : ran[i].stage = "body"

\* the stages that were taken from a queue and returned without calling Next
Halts(queues) ==
    {i \in 1..Len(ran) : ran[i].qid # 0 /\ ran[i].did # "Next" /\ ran[i].queue \in queues}

\* C10: after a stage has returned without calling Next no stage of its queue
\* runs; and when that stage was of the serve, request or execute level, the
\* request still ends with the response level run, its filters entered, and
\* the encoder after them.
C10_HaltStopsOwnQueueOnly ==
    /\ \A i \in 1..Len(ran) : \A j \in (i + 1)..Len(ran) :
          (ran[i].qid # 0 /\ ran[i].did # "Next") => ran[j].qid # ran[i].qid
    /\ pc.op = "done" =>
          \A i \in Halts({"serve", "request", "execute"}) :
             \E j \in (i + 1)..Len(ran) : \E k \in (j + 1)..Len(ran) :
                /\ ran[j].stage = "response"
                /\ ran[k].stage = "body"
                /\ sites[ctx.site].responseFilters # <<>> =>
                      \E m \in (j + 1)..(k - 1) : ran[m].queue = "response"

\* an execute filter has returned without Next: the actions behind it never
\* ran, the response filter and the encoder did
C10_Witness ==
    /\ pc.op = "done"
    /\ \E i \in Halts({"execute"}) :
          /\ ran[i].did = "return"
          /\ \A j \in 1..Len(ran) : ran[j].stage \notin {"load", "show"}
          /\ \E j \in (i + 1)..Len(ran) : \E k \in (j + 1)..Len(ran) :
                ran[j].queue = "response" /\ ran[k].stage = "body"

\* the stages that are the route's actions
ActionStages == Range(ctx.Config.Actions) \cup {ctx.Config.Action}

\* the events of the history at which `stage` ran
At(stage) == {i \in 1..Len(ran) : ran[i].stage = stage}

\* C11: when the route has an argument schema and the mapping of the request's
\* arguments fails, arguing hands over to the failed chain, which is entered
\* next, and no execute filter and no action of the route runs, whatever the
\* handlers of the chain do.
C11_ArgsFailureSkipsExecute ==
    (pc.op # "idle" /\ DOMAIN ctx.Config.Args # {} /\ ctx.req.ArgsFail) =>
        /\ \A i \in At("arguing") :
              /\ ran[i].did = "failed"
              /\ i < Len(ran) => ran[i + 1].stage = "failed"
        /\ \A j \in 1..Len(ran) :
              /\ ran[j].stage # "execute"
              /\ ran[j].queue # "execute"
              /\ ran[j].stage \notin ActionStages

\* the arguments failed, the route's own handler and the site's both called
\* Next, the default answered 400, and the request is finished
C11_Witness ==
    /\ pc.op = "done"
    /\ ctx.req.ArgsFail
    /\ \E i \in At("arguing") : \E j \in At("item.failed") : \E k \in At("page.failed") :
          /\ i < j /\ j < k
          /\ ran[j].did = "Next" /\ ran[k].did = "Next"
          /\ At("failedDefault") # {}
    /\ ctx.Code = StatusBadRequest

\* C12: a request that lacks the signature its route requires, or the
\* authentication, is handed by authorizing to the denied chain, which is
\* entered next, and never reaches arguing, the execute filters or the
\* actions; the result is Unsigned whenever the signature is required and
\* missing, whatever the authentication, and Unauthed only otherwise.
C12_GatesDeny ==
    (/\ pc.op # "idle"
     /\ \/ ctx.Config.Sign /\ ~ctx.req.Signed
        \/ ctx.Config.Auth /\ ~ctx.req.Authed) =>
        /\ \A i \in At("authorizing") :
              /\ ran[i].did = "denied"
              /\ i < Len(ran) => ran[i + 1].stage = "denied"
              /\ ctx.Result = IF ctx.Config.Sign /\ ~ctx.req.Signed
                              THEN "unsigned" ELSE "unauthed"
        /\ \A j \in 1..Len(ran) :
              /\ ran[j].stage \notin {"arguing", "execute"}
              /\ ran[j].queue # "execute"
              /\ ran[j].stage \notin ActionStages

\* a request with neither signature nor authentication, for a route that
\* requires both, has been denied as unsigned and answered 401
C12_Witness ==
    /\ pc.op = "done"
    /\ ctx.Config.Sign /\ ctx.Config.Auth
    /\ ~ctx.req.Signed /\ ~ctx.req.Authed
    /\ At("authorizing") # {} /\ At("deniedDefault") # {}
    /\ ctx.Result = "unsigned"
    /\ ctx.Code = StatusUnauthorized

\* C13: once Site.Serve has returned or has been abandoned, no temp file that
\* uploadFile created for the request is left on disk; and the files are
\* removed only after the response encoder has run.
C13_UploadsRemoved ==
    /\ pc.op \in {"done", "panic"} => ctx.disk = {}
    /\ (pc.op # "idle" /\ ctx.uploadfiles # <<>> /\ ctx.disk = {}) => ctx.sent

\* a policy allows `value` through its singular field `one` or its list `many`
Allows(one, many, value) ==
    \/ ToLower(TrimSpace(one)) = ToLower(TrimSpace(value))
    \/ containsString(many, value)

\* the request in flight is a preflight of which the site's policy allows the
\* origin, the method and the header asked for
AllowedPreflight ==
    /\ pc.op # "idle"
    /\ ctx.Method = "OPTIONS"
    /\ ctx.req.Origin # "" /\ ctx.req.RequestMethod # "" /\ ctx.req.RequestHeaders # ""
    /\ LET c == sites[ctx.site].Cross
       IN /\ c.Allow
          /\ Allows(c.Origin, c.Origins, ctx.req.Origin)
          /\ Allows(c.Method, c.Methods, ctx.req.RequestMethod)
          /\ Allows(c.Header, c.Headers, ctx.req.RequestHeaders)

\* C14: a preflight whose origin, method and header the site's policy allows,
\* each through the singular field or through the list, is answered by
\* crossing with a 200 text response that carries the request's origin in
\* Access-Control-Allow-Origin, and crossing does not advance: parsing,
\* authorizing, arguing, the execute filters and the actions do not run.
C14_PreflightAnswered ==
    AllowedPreflight =>
        /\ \A i \in At("crossing") :
              /\ ran[i].did = "return"
              /\ ctx.Code = StatusOK /\ ctx.Body = "text"
              /\ Get(ctx.headers, "Access-Control-Allow-Origin", "") = ctx.req.Origin
        /\ \A j \in 1..Len(ran) :
              /\ ran[j].stage \notin {"parsing", "authorizing", "arguing", "execute"}
              /\ ran[j].stage \notin ActionStages

Chains == {"found", "error", "failed", "denied"}

\* the default status of a terminal chain
DefaultCode(chain) ==
    CASE chain = "found"  -> StatusNotFound
      [] chain = "error"  -> StatusInternalServerError
      [] chain = "failed" -> StatusBadRequest
      [] chain = "denied" -> StatusUnauthorized

\* the route's own handler for a chain, and the site's handlers in their order
OwnHandler(chain) ==
    CASE chain = "found"  -> ctx.Config.Found
      [] chain = "error"  -> ctx.Config.Error
      [] chain = "failed" -> ctx.Config.Failed
      [] chain = "denied" -> ctx.Config.Denied

SiteHandlers(chain) ==
    CASE chain = "found"  -> sites[ctx.site].foundHandlers
      [] chain = "error"  -> sites[ctx.site].errorHandlers
      [] chain = "failed" -> sites[ctx.site].failedHandlers
      [] chain = "denied" -> sites[ctx.site].deniedHandlers

\* what a chain is to run: the override, the site's handlers, the default
Expected(chain) ==
    (IF OwnHandler(chain) # NIL THEN <<OwnHandler(chain)>> ELSE <<>>)
        \o SiteHandlers(chain) \o <<chain \o "Default">>

\* the events of the stages taken from queue q, and the place of one among them
OfQueue(q) == {j \in 1..Len(ran) : ran[j].qid = q}
Place(j) == Cardinality({k \in OfQueue(ran[j].qid) : k <= j})

\* the stages a chain has run are, in order, the first of those it is to run,
\* and each but the last of them called Next
ChainsInOrder ==
    pc.op # "idle" =>
        \A i \in 1..(Len(ran) - 1) :
            ran[i].stage \in Chains =>
                /\ ran[i + 1].queue = ran[i].stage
                /\ \A j \in OfQueue(ran[i + 1].qid) :
                      /\ Place(j) <= Len(Expected(ran[i].stage))
                      /\ ran[j].stage = Expected(ran[i].stage)[Place(j)]
                      /\ (\E k \in OfQueue(ran[i + 1].qid) : k > j) => ran[j].did = "Next"

\* a chain that is entered sets its default status when none is set, and
\* leaves a status that is set alone
ChainKeepsCode ==
    (pc.op = "call" /\ pc.fn \in Chains) =>
        ctx'.Code = IF ctx.Code <= 0 THEN DefaultCode(pc.fn) ELSE ctx.Code

\* C15: each terminal chain sets its default status (404, 500, 400, 401) only
\* when no status is set, and runs the route's own handler first when there is
\* one, then the site's handlers, then the built-in default, which is the last
\* of its stages; a stage runs only when every stage before it called Next.
C15_TerminalChains == []ChainsInOrder /\ [][ChainKeepsCode]_vars

\* the not-found chain ran the site's handler and the default, and a response
\* filter has then entered the error chain, which left the 404 in place
C15_Witness ==
    /\ pc = AtNext
    /\ Len(ran) > 0
    /\ ran[Len(ran)].stage = "error"
    /\ ctx.Code = StatusNotFound
    /\ \E i \in At("found") : \E j \in At("page.found") : \E k \in At("foundDefault") :
          i < j /\ j < k /\ ran[j].did = "Next"

\* the callback a handler registers for a chain
HandlerFor(h, chain) ==
    CASE chain = "found"  -> h.Found
      [] chain = "error"  -> h.Error
      [] chain = "failed" -> h.Failed
      [] chain = "denied" -> h.Denied

\* the registered handlers whose callback for `chain` is `stage`
Owners(chain, stage) ==
    {h \in DOMAIN handlers : HandlerFor(handlers[h], chain) = stage}

\* the place of a handler in the order of registration
Registered(h) == CHOOSE i \in 1..Len(handlerLog) : handlerLog[i] = h

\* C16: of two handlers of the site that run in a terminal chain, the one
\* registered first runs first.
C16_HandlersInRegistrationOrder ==
    \A j \in 1..Len(ran) : \A k \in (j + 1)..Len(ran) :
        (ran[j].qid = ran[k].qid /\ ran[j].queue \in Chains) =>
            \A hj \in Owners(ran[j].queue, ran[j].stage) :
                \A hk \in Owners(ran[k].queue, ran[k].stage) :
                    Registered(hj) < Registered(hk)

\* the pairs <<own, wild>> of keys of a registry table that register the same
\* name for site s and for every site
Rivals(table, s) ==
    {<<k, w>> \in (DOMAIN table) \X (DOMAIN table) :
        /\ splitPrefix(k)[1] = s
        /\ splitPrefix(w)[1] = "*"
        /\ splitPrefix(k)[2] = splitPrefix(w)[2]}

\* of a site's own registration and a wildcard one of the same name, the one
\* that is to win: the site's own under first-wins, the wildcard under override
Winner(p) == IF override THEN p[2] ELSE p[1]

\* C17: a wildcard-site registration of a route, a filter or a handler is
\* applied to a site after the site's own registrations, under the same win
\* policy: where both register a name, the site's own record stands under
\* first-wins and the wildcard's record under override.
C17_WildcardAppliedLast ==
    JustSetUp =>
        \A s \in DOMAIN sites :
            /\ \A p \in Rivals(handlers, s) :
                  sites[s].handlers[splitPrefix(p[1])[2]] = handlers[Winner(p)]
            /\ \A p \in Rivals(filters, s) :
                  sites[s].filters[splitPrefix(p[1])[2]] = filters[Winner(p)]
            /\ \A p \in Rivals(routers, s) :
                  \A n \in DOMAIN expandRouter(splitPrefix(p[1])[2], routers[p[1]])
                            \cap DOMAIN expandRouter(splitPrefix(p[2])[2], routers[p[2]]) :
                      sites[s].routers[n] =
                          expandRouter(splitPrefix(p[1])[2], routers[Winner(p)])[n]

\* the request in flight resolves to no route and to no static file
Unrouted == pc.op # "idle" /\ ctx.Name = "" /\ ctx.req.Static = ""

\* C18: a request that resolves to no registered route and to no static file
\* runs no request filter and no action, and once Site.Serve has returned it
\* has entered the not-found chain and been answered: by the default 404
\* "Not Found" when the site has no handler and no filter of its own.
C18_NotFoundAnswered ==
    Unrouted =>
        /\ \A j \in 1..Len(ran) :
              /\ ran[j].stage \notin Range(sites[ctx.site].requestFilters) \cup {"request", "execute"}
              /\ ran[j].queue \notin {"request", "execute"}
        /\ pc.op = "done" =>
              /\ At("found") # {}
              /\ At("body") # {}
              /\ (DOMAIN sites[ctx.site].filters = {} /\ DOMAIN sites[ctx.site].handlers = {}) =>
                    ctx.wrote = [code |-> StatusNotFound, text |-> "Not Found"]

\* C19: a stream handed to Buffer stays open only while it is the payload: an
\* operation that sets a payload closes the stream held before; the encoder
\* never reads a stream that has been closed; and when Site.Serve has
\* returned every stream is closed.
C19_StreamsReleased ==
    pc.op # "idle" =>
        /\ \A i \in 1..Len(ctx.streams) :
              (i < Len(ctx.streams) \/ ctx.Body # "buffer") => ctx.streams[i] = "closed"
        /\ ~ctx.misused
        /\ pc.op = "done" => \A i \in 1..Len(ctx.streams) : ctx.streams[i] = "closed"

\* a status code has been set for the request in flight: by a terminal chain
\* or by a callback's ctx.Status
CodeWasSet ==
    \E i \in 1..Len(ran) : ran[i].stage \in Chains \/ ran[i].did = "Status"

\* C20: when the encoder has run with no payload set, it has written a 404
\* if no status code was set, and otherwise the code that was set with that
\* code's reason phrase as the body.
C20_BareStatus ==
    (pc.op # "idle" /\ ctx.sent /\ ctx.Body = "") =>
        IF CodeWasSet
        THEN ctx.wrote = [code |-> ctx.Code, text |-> StatusText(ctx.Code)]
        ELSE ctx.wrote.code = StatusNotFound

\* the encoder has run on a JSON, JSONP or echo payload that does not serialize
EncodingFailed ==
    /\ pc.op # "idle"
    /\ ctx.sent
    /\ ctx.Body \in {"json", "jsonp", "echo"}
    /\ Marshal(ctx.Json).err # ""

\* C21: when the encoder has run on a JSON, JSONP or echo payload whose
\* serialization fails, it has written status 500 with the serialization
\* error's text as the body, whatever status code the context holds, and
\* nothing of the error chain runs after the encoder.
C21_EncodingFailure ==
    EncodingFailed =>
        /\ ctx.wrote = [code |-> StatusInternalServerError,
                        text |-> Marshal(ctx.Json).err \o "\n"]
        /\ \A i \in At("body") : \A j \in (i + 1)..Len(ran) :
              /\ ran[j].stage \notin {"error", "errorDefault"}
              /\ ran[j].did # "error"

\* a payload that does not serialize was answered with 500 while the context
\* held another code, and the request is over
C21_Witness ==
    /\ EncodingFailed
    /\ pc.op = "done"
    /\ ctx.Code # StatusInternalServerError
    /\ ctx.wrote.code = StatusInternalServerError

\* the encoder has run for a request that set a cookie
CookiesWritten == pc.op # "idle" /\ ctx.sent /\ DOMAIN ctx.cookies # {}

\* C22: every cookie the encoder has written has path `/`, the http-only
\* attribute of the site's HttpOnly setting and the max-age of the site's
\* MaxAge setting, whatever the callback put on the cookie.
C22_CookiesBySitePolicy ==
    CookiesWritten =>
        /\ Cardinality(ctx.setCookies) = Cardinality(DOMAIN ctx.cookies)
        /\ \A cookie \in ctx.setCookies :
              /\ cookie.Path = "/"
              /\ cookie.HttpOnly = sites[ctx.site].Config.HttpOnly
              /\ cookie.MaxAge = sites[ctx.site].Config.MaxAge

\* the sites set up that are not the default one and hold no domain and no
\* domain list of their own
Domainless ==
    {s \in (DOMAIN sites) \ {DEFAULT} :
        s \in DOMAIN configs => configs[s].Domain = "" /\ configs[s].Domains = <<>>}

\* C23: when Setup has run with a process-wide domain D configured, every
\* site but the default one that has no domain and no domain list of its own
\* has the host list [`<site>.D`], and the host table maps that host, made
\* normal, to the site; the default site, when it has none of its own, has
\* the host list [D].
C23_DerivedHost ==
    (JustSetUp /\ config.Domain # "") =>
        /\ \A s \in Domainless :
              /\ sites[s].Hosts = <<normalizeHost(s \o "." \o config.Domain)>>
              /\ normalizeHost(s \o "." \o config.Domain) \in DOMAIN siteHosts
              /\ siteHosts[normalizeHost(s \o "." \o config.Domain)] = s
        /\ (DEFAULT \notin DOMAIN configs) =>
              sites[DEFAULT].Hosts = <<normalizeHost(config.Domain)>>

\* the configurations supplied for site s: Config values and configuration maps
SuppliedFor(s) ==
    {r[2] : r \in {q \in ConfConfigs : ToLower(q[1]) = s}}
        \cup UNION {{g.webSites[k] : k \in {n \in DOMAIN g.webSites : ToLower(n) = s}}
                        : g \in ConfGlobals}
        \cup UNION {{g.sites[k] : k \in {n \in DOMAIN g.sites : ToLower(n) = s}}
                        : g \in ConfGlobals}

\* the static roots that the configuration supplied names for site s
ExplicitStatics(s) == {c.Static : c \in SuppliedFor(s)}

\* C24: when Setup has run, the static root of a site that is not the
\* default one is `<process-wide static root>/<site>` when the configuration
\* supplied for the site sets no static root, and is the root it sets
\* otherwise, also when that root is the process-wide one.
C24_StaticRoot ==
    JustSetUp =>
        \A s \in (DOMAIN sites) \ {DEFAULT} :
            IF ExplicitStatics(s) \subseteq {""}
            THEN sites[s].Config.Static = config.Static \o "/" \o s
            ELSE sites[s].Config.Static \in ExplicitStatics(s)

\* the scheme the options of a Site call choose, and that scheme's port
SchemeOf(opts) ==
    With("[ssl]" \in DOMAIN opts /\ opts["[ssl]"].bool, LAMBDA ssl :
    With("[socket]" \in DOMAIN opts /\ opts["[socket]"].bool, LAMBDA socket :
        IF ssl THEN (IF socket THEN "wss://" ELSE "https://")
        ELSE IF socket THEN "ws://" ELSE "http://"))

SchemePort(scheme) == IF scheme \in {"https://", "wss://"} THEN 443 ELSE 80

\* C25: Site returns scheme + host + path: the scheme is http, https, ws or
\* wss as [socket] and [ssl] say; the host is the site's domain, else the
\* first of its domain list, else its literal host, with `:port` appended
\* exactly when the site's port is not the port of the scheme; the path
\* begins with `/` when there is one.
C25_SiteUrl ==
    last.op = "Site" =>
        LET cfg == sites[last.name].Config
            scheme == SchemeOf(last.opts)
            host == IF cfg.Domain # "" THEN cfg.Domain
                    ELSE IF Len(cfg.Domains) > 0 THEN cfg.Domains[1]
                    ELSE cfg.Host
            port == IF cfg.Port # SchemePort(scheme) THEN ":" \o Itoa(cfg.Port) ELSE ""
            path == IF last.path = "" \/ HasPrefix(last.path, "/") THEN last.path
                    ELSE "/" \o last.path
        IN last.result = scheme \o host \o port \o path

\* C27: when Setup has run, a field that no configuration supplied for a site
\* sets has the process-wide value in the site's effective configuration, in
\* whatever order the configurations were supplied: so for the port and for
\* the http-only flag.
C27_Layering ==
    JustSetUp =>
        \A s \in (DOMAIN sites) \ {DEFAULT} :
            /\ (\A c \in SuppliedFor(s) : c.Port = 0) => sites[s].Config.Port = config.Port
            /\ (\A c \in SuppliedFor(s) : ~c.HttpOnly) =>
                  sites[s].Config.HttpOnly = config.HttpOnly

\* the stages a level enqueues, as the claim lists them, nil ones left out
Enqueued(q) ==
    NonNil(CASE q = "open"     -> <<"preprocessing">> \o sites[ctx.site].serveFilters \o <<"serve">>
             [] q = "serve"    -> <<"finding">> \o sites[ctx.site].requestFilters \o <<"request">>
             [] q = "request"  -> <<"crossing", "parsing", "authorizing", "arguing", "execute">>
             [] q = "execute"  -> sites[ctx.site].executeFilters \o ctx.Config.Actions
                                     \o <<ctx.Config.Action>>
             [] q = "response" -> sites[ctx.site].responseFilters
             [] OTHER          -> <<>>)

Levels == {"open", "serve", "request", "execute", "response"}

\* the stages taken from a level's queue so far are the first of those it
\* enqueued, in their order
QueuesInOrder ==
    pc.op # "idle" =>
        \A j \in 1..Len(ran) :
            ran[j].queue \in Levels =>
                /\ Place(j) <= Len(Enqueued(ran[j].queue))
                /\ ran[j].stage = Enqueued(ran[j].queue)[Place(j)]

\* the request in flight resolved to a route, is over, and every stage of it
\* but the encoder called Next
AllAdvanced ==
    /\ pc.op = "done"
    /\ ctx.Name # ""
    /\ \A i \in 1..Len(ran) : ran[i].stage \notin {"body", "close"} => ran[i].did = "Next"

\* the stages that ran, in order, but for the levels that enqueue others and
\* Site.Serve's close
StagesRun ==
    [i \in 1..Len(ran) |-> ran[i].stage]

Listed(stages) ==
    SelectSeq(stages, LAMBDA st : st \notin {"serve", "request", "execute", "response", "close"})

\* C26: the stages taken from one queue run in the order they were enqueued,
\* nil ones skipped; and when a request to a registered route is over in which
\* every stage called Next, the stages that ran are, once each and in this
\* order: preprocessing, the serve filters, finding, the request filters,
\* crossing, parsing, authorizing, arguing, the execute filters, the route's
\* Actions, its Action, the response filters, the encoder.
C26_StageOrder ==
    /\ QueuesInOrder
    /\ AllAdvanced =>
          Listed(StagesRun) =
              <<"preprocessing">> \o sites[ctx.site].serveFilters
                \o <<"finding">> \o sites[ctx.site].requestFilters
                \o <<"crossing", "parsing", "authorizing", "arguing">>
                \o sites[ctx.site].executeFilters
                \o NonNil(ctx.Config.Actions) \o NonNil(<<ctx.Config.Action>>)
                \o sites[ctx.site].responseFilters \o <<"body">>

\* a request ran the thirteen stages of the route, its four filters and two actions
\* among them, a nil action skipped
C26_Witness ==
    /\ AllAdvanced
    /\ NIL \in Range(ctx.Config.Actions)
    /\ Len(Listed(StagesRun)) = 13
    /\ \A st \in {"log.serve", "log.request", "log.execute", "load", "show", "log.response"} :
          Cardinality(At(st)) = 1

\* the field of the override when it sets one, else the declaration's
Overriding(own, base, unset) == IF own # unset THEN own ELSE base

\* the record that site s holds for method m of its sole declaration k
MethodRecord(s, k, m) == sites[s].routers[ToLower(splitPrefix(k)[2] \o "." \o m)]

\* C28: the record emitted for method m of a declaration is stored under
\* `<logicalName>.<m>` and has method m; its argument map is the union of the
\* declaration's and the override's, the override's value on every shared
\* key; and its name, actions and terminal handlers are the override's where
\* the override sets them and the declaration's where it does not.
C28_MethodOverride ==
    JustSetUp =>
        \A sk \in SoleDeclarations : \A m \in DOMAIN routers[sk[2]].Routing :
            LET decl == routers[sk[2]]
                ov == decl.Routing[m]
                rec == MethodRecord(sk[1], sk[2], m)
            IN /\ ToLower(splitPrefix(sk[2])[2] \o "." \o m) \in DOMAIN sites[sk[1]].routers
               /\ rec.Method = m
               /\ rec.Args = MergeVars(decl.Args, ov.Args)
               /\ rec.Name = Overriding(ov.Name, decl.Name, "")
               /\ rec.Actions = Overriding(ov.Actions, decl.Actions, <<>>)
               /\ rec.Action = Overriding(ov.Action, decl.Action, NIL)
               /\ rec.Found = Overriding(ov.Found, decl.Found, NIL)
               /\ rec.Error = Overriding(ov.Error, decl.Error, NIL)
               /\ rec.Failed = Overriding(ov.Failed, decl.Failed, NIL)
               /\ rec.Denied = Overriding(ov.Denied, decl.Denied, NIL)

\* the URI list of a declaration, as the claim gives it
UriList(decl) ==
    IF decl.Uris = <<>> THEN <<decl.Uri>>
    ELSE IF decl.Uri # "" THEN decl.Uris \o <<decl.Uri>>
    ELSE decl.Uris

\* the name under which the URI at zero-based position i of a record is stored
UriName(base, i) == IF i = 0 THEN base ELSE base \o "." \o Itoa(i)

Inside == {p \in Procs : procs[p].at \in {"body", "store", "unlock"}}

\* the goroutines whose call has returned
Returned == {p \in Procs : procs[p].at = "done"}

\* the five tables as they are, and as construction leaves them
Tables ==
    [Driver |-> drivers, Config |-> configs, Router |-> routers, Filter |-> filters,
     Handler |-> handlers]

FreshTables ==
    [Driver |-> Put(EmptyMap, DEFAULT, "defaultDriver"), Config |-> EmptyMap,
     Router |-> EmptyMap, Filter |-> EmptyMap, Handler |-> EmptyMap]

\* the tables t after one whole call c made on its own
AfterCall(t, c) ==
    [t EXCEPT ![c.kind] =
        IF override \/ keyOf(c.kind, c.name) \notin DOMAIN @
        THEN Put(@, keyOf(c.kind, c.name), c.value) ELSE @]

\* the tables after the first n calls, taken one after another in the order
\* in which the goroutines took the mutex
RECURSIVE Serially(_)
Serially(n) ==
    IF n = 0 THEN FreshTables
    ELSE AfterCall(Serially(n - 1), procs[CHOOSE p \in Procs : procs[p].at # "ready"
                                                               /\ procs[p].at # "lock"
                                                               /\ procs[p].turn = n])

\* the calls that have returned and wrote under key k of a table
Competing(kind, k) ==
    {p \in Returned : procs[p].kind = kind /\ keyOf(kind, procs[p].name) = k}

\* C30: Register* calls made by several goroutines before sealing are
\* serialized: at most one goroutine is inside a call's critical section;
\* when every call made has returned, the five tables are those that the same
\* calls leave when made one after another in some order; and every name
\* written holds the record of exactly one of the calls that competed for
\* it, or the record it held before them.
C30_RegistrationSerialized ==
    /\ Cardinality(Inside) <= 1
    /\ (Inside = {} /\ \A p \in Procs : procs[p].at # "lock") =>
          /\ Tables = Serially(Cardinality(Returned))
          /\ \A kind \in DOMAIN Tables : \A k \in DOMAIN Tables[kind] :
                Competing(kind, k) # {} =>
                    \/ \E p \in Competing(kind, k) : Tables[kind][k] = procs[p].value
                    \/ /\ k \in DOMAIN FreshTables[kind]
                       /\ Tables[kind][k] = FreshTables[kind][k]

\* three goroutines have registered routes under one name, letter case
\* apart, two of them the same record, and one of the two records is stored
C30_Witness ==
    /\ Returned = Procs
    /\ Cardinality(Competing("Router", "shop.item")) = 3
    /\ Cardinality({procs[p].value : p \in Procs}) = 2
    /\ routers["shop.item"] \in {procs[p].value : p \in Procs}

\* the cookies of the request in flight that a stage deleted: Cookie(key, nil)
Deleted ==
    {k \in DOMAIN ctx.cookies :
        ctx.cookies[k] = [Name |-> k, Path |-> "", HttpOnly |-> TRUE, MaxAge |-> -1]}

\* C38: when the encoder has run for a request in which a stage deleted a
\* cookie with Cookie(key, nil), the Set-Cookie written for that key has a
\* negative max-age, whatever the site's configuration.
C38_CookieDeletion ==
    CookiesWritten =>
        \A k \in Deleted : \A cookie \in ctx.setCookies :
            cookie.Name = k => cookie.MaxAge < 0

\* the policy restricts the origins: it lists allowed origins without "*", or
\* names one specific origin in the singular field
Restricting(c) ==
    \/ c.Origins # <<>> /\ ~containsString(c.Origins, "*")
    \/ c.Origin \notin {"", "*"}

\* the request in flight carries an Origin that its site's policy restricts
\* and does not allow
ForeignOrigin ==
    /\ pc.op # "idle"
    /\ ctx.req.Origin # ""
    /\ LET c == sites[ctx.site].Cross
       IN /\ c.Allow
          /\ Restricting(c)
          /\ ~Allows(c.Origin, c.Origins, ctx.req.Origin)

\* C37: a request whose Origin the site's restricting policy does not allow
\* never gets Access-Control-Allow-Origin or Access-Control-Allow-Credentials,
\* and crossing does not answer it with the 200 preflight response.
C37_OriginRestricted ==
    ForeignOrigin =>
        /\ "Access-Control-Allow-Origin" \notin DOMAIN ctx.headers
        /\ "Access-Control-Allow-Credentials" \notin DOMAIN ctx.headers
        /\ \A i \in At("crossing") : ran[i].did # "return"

\* C35: whenever the module is marked started while a connection is open,
\* Start or StartTLS has been invoked on that connection.
C35_StartedMeansRunning ==
    (started /\ opened) => (instance.present /\ instance.connect /\ instance.started)

\* the router registered under key k has taken effect: a site's route table
\* holds a record of it (of the router itself or of one of its per-method
\* expansions), and the connector holds that record under
\* <site>.<record name> with the site's hosts
InEffect(k) ==
    \E s \in DOMAIN sites : \E r \in DOMAIN sites[s].routerInfos :
        /\ splitPrefix(k)[1] \in {s, "*"}
        /\ \/ sites[s].routerInfos[r].Router = splitPrefix(k)[2]
           \/ HasPrefix(sites[s].routerInfos[r].Router, splitPrefix(k)[2] \o ".")
        /\ \E x \in instance.routes :
              x.name = s \o "." \o r /\ x.hosts = sites[s].Hosts

\* C36: once Setup has run and Open has completed, every router that a
\* registration call accepted and that declares an action has its records in
\* its site's route table and registered with the connector, whether it was
\* registered before or after Setup.
C36_AcceptedTakesEffect ==
    (setupDone /\ opened) =>
        \A k \in DOMAIN routers : routers[k].Action # NIL => InEffect(k)

\* the site the host table resolves for the host of the last request, the
\* default site on a total miss
HostSite ==
    IF resolveSiteByHost(last.host) # "" THEN resolveSiteByHost(last.host) ELSE defaultSite

\* the site that the prefix of the last request's route name names, "" when
\* it names none, the default site, or a site that does not exist
PrefixSite ==
    With(splitPrefix(last.name)[1], LAMBDA prefix :
        IF prefix \notin {"", DEFAULT} /\ prefix \in DOMAIN sites THEN prefix ELSE "")

OfCurrentQueue == {i \in 1..Len(ran) : ran[i].qid = ctx.qid}

\* C33: while a request is in the pipeline, the cursor stays within its
\* queue, 0 <= index <= len(nexts), through every clear, next and Next, in
\* sub-chains and terminal chains alike; and, every stage calling Next at
\* most once, no stage of a queue is invoked twice: a queue has seen no more
\* invocations than its cursor has advanced, each of a different stage
\* (the entries of a terminal chain belong to no queue and carry qid 0).
C33_Cursor ==
    pc.op # "idle" =>
        /\ 0 <= ctx.index /\ ctx.index <= Len(ctx.nexts)
        /\ Cardinality(OfCurrentQueue) <= ctx.index
        /\ \A i, j \in 1..Len(ran) :
              (i < j /\ ran[i].qid > 0 /\ ran[i].qid = ran[j].qid)
                  => ran[i].stage # ran[j].stage

\* a terminal chain entered from a nested sub-chain has run to its end: the
\* cursor stands at the end of a queue of more than one stage, each invoked
C33_Witness ==
    /\ pc.op = "done"
    /\ ctx.queue \in Chains
    /\ Len(ctx.nexts) > 1
    /\ ctx.index = Len(ctx.nexts)
    /\ Cardinality(OfCurrentQueue) = Len(ctx.nexts)
    /\ \E i \in 1..Len(ran) : ran[i].queue = "execute"

\* C34: once Setup has run, the default site name is a key of the site map,
\* every entry of the host table names an existing site, every route record
\* refers to a route of its own site's route table, and every route of a
\* site's route table has at least one route record.
C34_ReferentialIntegrity ==
    setupDone =>
        /\ defaultSite \in DOMAIN sites
        /\ \A h \in DOMAIN siteHosts : siteHosts[h] \in DOMAIN sites
        /\ \A s \in DOMAIN sites :
              /\ \A r \in DOMAIN sites[s].routerInfos :
                    sites[s].routerInfos[r].Router \in DOMAIN sites[s].routers
              /\ \A k \in DOMAIN sites[s].routers :
                    \E r \in DOMAIN sites[s].routerInfos :
                        sites[s].routerInfos[r].Router = k

\* Module.Serve is running: a request has been handed over and Site.Serve
\* has not returned
Serving == pc.op \in {"Next", "call", "return"}

\* C31: no request is being served while the registry is unsealed: whenever
\* Module.Serve runs, the module is opened, so that no registration, Config
\* or Setup can change the tables it reads.
C31_BuildAndServeDisjoint ==
    Serving => opened

====
